---- MODULE Spec2Model ----
(***************************************************************************)
(* A model of planar's QuadTreeSpace (lib/planar/collision.py) and of the  *)
(* bounding-box predicates it uses (lib/planar/shape_op.py).               *)
(*                                                                         *)
(* The space is modelled as the Python object it is: its attributes are    *)
(* the variables, each public method is one action, and an exception       *)
(* raised inside a method ends that call and leaves the attributes as the  *)
(* statements executed before the raise left them.  The host program may   *)
(* catch the exception and go on calling methods, so the model goes on     *)
(* too; the exception of the last call is recorded in last.raised.         *)
(*                                                                         *)
(* BoundingBox (lib/planar/box.py) is not among the source files; the few  *)
(* operations of it that are used here follow its description in the       *)
(* specification and its unit tests (test/test_box.py).                    *)
(***************************************************************************)
EXTENDS Integers, Sequences, FiniteSets, TLC

(* Bounds of the model. *)
MaxCoord == 1
MaxArgs == 2

(* QuadTreeSpace.__init__(self, node_capacity=4, ...) *)
node_capacity == 4

(* Python's None, and a value that is not None: an attribute that may be
   None holds <<>> or <<v>>. *)
None == <<>>
Some(v) == <<v>>
Val(opt) == opt[1]

(* How a call ended: no exception, or the exception's type. *)
NoError == "none"

(* The shape objects of the host program: anything with a bounding_box. *)
Shapes == {"a", "b"}

(***************************************************************************)
(* planar.BoundingBox: two corner points, min_point <= max_point           *)
(* componentwise.  Equality of boxes is equality of the corner points.     *)
(***************************************************************************)
BoundingBox(x0, y0, x1, y1) ==
    [min_point |-> <<x0, y0>>, max_point |-> <<x1, y1>>]

Points == (0..MaxCoord) \X (0..1)

(* The boxes the shapes take: every x-extent on the grid, zero width
   included, over the full height. *)
Boxes ==
    UNION { { BoundingBox(x0, 0, x1, 1) : x1 \in x0..MaxCoord } :
              x0 \in 0..MaxCoord }

(* BoundingBox.contains_point: both bounds inclusive. *)
contains_point(bbox, point) ==
    /\ bbox.min_point[1] <= point[1] /\ point[1] <= bbox.max_point[1]
    /\ bbox.min_point[2] <= point[2] /\ point[2] <= bbox.max_point[2]

(* BoundingBox.from_shapes applied to a non-empty set of boxes: the union. *)
from_shapes(boxes) ==
    LET minx == CHOOSE v \in {b.min_point[1] : b \in boxes} :
                    \A b \in boxes : v <= b.min_point[1]
        miny == CHOOSE v \in {b.min_point[2] : b \in boxes} :
                    \A b \in boxes : v <= b.min_point[2]
        maxx == CHOOSE v \in {b.max_point[1] : b \in boxes} :
                    \A b \in boxes : v >= b.max_point[1]
        maxy == CHOOSE v \in {b.max_point[2] : b \in boxes} :
                    \A b \in boxes : v >= b.max_point[2]
    IN  BoundingBox(minx, miny, maxx, maxy)

(* shape_op.bbox_encloses_bbox *)
bbox_encloses_bbox(bbox_a, bbox_b) ==
    /\ bbox_a.min_point[1] <= bbox_b.min_point[1]
    /\ bbox_a.min_point[2] <= bbox_b.min_point[2]
    /\ bbox_a.max_point[1] >= bbox_b.max_point[1]
    /\ bbox_a.max_point[2] >= bbox_b.max_point[2]

(* A test of collision that is inclusive on both sides. *)
bbox_collides_bbox_closed(bbox_a, bbox_b) ==
    /\ bbox_a.min_point[1] <= bbox_b.max_point[1]
    /\ bbox_a.max_point[1] >= bbox_b.min_point[1]
    /\ bbox_a.min_point[2] <= bbox_b.max_point[2]
    /\ bbox_a.max_point[2] >= bbox_b.min_point[2]

(* shape_op.bbox_collides_bbox: strict on one side, inclusive on the other *)
bbox_collides_bbox(bbox_a, bbox_b) ==
    /\ bbox_a.min_point[1] < bbox_b.max_point[1]
    /\ bbox_a.max_point[1] >= bbox_b.min_point[1]
    /\ bbox_a.min_point[2] < bbox_b.max_point[2]
    /\ bbox_a.max_point[2] >= bbox_b.min_point[2]

(***************************************************************************)
(* State.                                                                  *)
(*   shape_bbox[s]       s.bounding_box, the host's shape object           *)
(*   implicit_updates    constructor flag                                  *)
(*   qtree               self._qtree, the root _QuadTreeNode               *)
(*   members_to_nodes    self._members_to_nodes, a dict: its keys are the  *)
(*                       function's domain, a node is named by the path of *)
(*                       child indexes that leads to it from the root      *)
(*   members_to_bbox     self._members_to_bbox, a dict likewise            *)
(*   tree_bounds         self._tree_bounds                                 *)
(*   bounding_box        self.bounding_box                                 *)
(*   hist, stale         history of the calls made (not program state)     *)
(*   last                the last call and how it ended                    *)
(***************************************************************************)
VARIABLES shape_bbox, implicit_updates, qtree, members_to_nodes,
          members_to_bbox, tree_bounds, bounding_box, hist, stale, last

(***************************************************************************)
(* The other objects of the library, each with a specification of its own *)
(* further down; under Spec they do not exist (Absent).                    *)
(*   vertices, convex, simple    a Polygon: its vertices, _convex, _simple *)
(*   mutated                     whether a vertex was assigned (history)   *)
(*   direction, normal           a Line or Ray: _direction, _normal        *)
(*   assigned                    the last assignment to it and how it ended*)
(*   transform, anchor, product  an Affine, the anchor it was scaled about *)
(*                               and what the last operator returned       *)
(*   bbox_a, bbox_b, collides    two boxes and bbox_collides_bbox of them  *)
(*   query_point, is_inside      a point and _pnp_crossing_test of it      *)
(***************************************************************************)
VARIABLES vertices, convex, simple, mutated,
          direction, normal, assigned,
          transform, anchor, product,
          bbox_a, bbox_b, collides,
          query_point, is_inside

(***************************************************************************)
(*   planar_EPSILON, planar_EPSILON2   the module globals EPSILON, EPSILON2*)
(*   old_e                             a saved EPSILON, with the EPSILON2  *)
(*                                     that went with it (history)         *)
(*   vec, vec_dict                     a Vec2 and its __dict__             *)
(*   is_null_read                      the last value read from is_null,   *)
(*                                     with the EPSILON2 of that moment    *)
(***************************************************************************)
VARIABLES planar_EPSILON, planar_EPSILON2, old_e, vec, vec_dict, is_null_read

(***************************************************************************)
(*   hull_points     a list of points                                      *)
(*   qhull, ghull    what quick_hull.convex_hull and                       *)
(*                   graham_hull.convex_hull returned for it               *)
(***************************************************************************)
VARIABLES hull_points, qhull, ghull

(***************************************************************************)
(*   poly            the vertices of a Polygon                              *)
(*   swept           what _check_is_simple returned for it, or None         *)
(*   brute           what _check_is_simple_brute_force returned, or None    *)
(***************************************************************************)
VARIABLES poly, swept, brute

(***************************************************************************)
(*   isect_line, isect_bbox   a Line and a BoundingBox                      *)
(*   isect_points             what intersect_line_bbox returned for them    *)
(***************************************************************************)
VARIABLES isect_line, isect_bbox, isect_points

(***************************************************************************)
(*   ray, ray_point   a Ray and a point                                     *)
(*   ray_sides        what point_behind, point_left, point_right and        *)
(*                    contains_point of the ray returned for the point      *)
(***************************************************************************)
VARIABLES ray, ray_point, ray_sides

spaceVars == <<shape_bbox, implicit_updates, qtree, members_to_nodes,
               members_to_bbox, tree_bounds, bounding_box, hist, stale, last>>
polygonVars == <<vertices, convex, simple, mutated>>
lineVars == <<direction, normal, assigned>>
affineVars == <<transform, anchor, product>>
boxVars == <<bbox_a, bbox_b, collides>>
pointVars == <<query_point, is_inside>>
epsilonVars == <<planar_EPSILON, planar_EPSILON2, old_e,
                 vec, vec_dict, is_null_read>>
hullVars == <<hull_points, qhull, ghull>>
simpleVars == <<poly, swept, brute>>
isectVars == <<isect_line, isect_bbox, isect_points>>
rayVars == <<ray, ray_point, ray_sides>>

vars == <<spaceVars, polygonVars, lineVars, affineVars, boxVars, pointVars,
          epsilonVars, hullVars, simpleVars, isectVars, rayVars>>

(* The objects that a specification is not about do not exist in it. *)
NoSpace ==
    /\ shape_bbox = None /\ implicit_updates = None /\ qtree = None
    /\ members_to_nodes = None /\ members_to_bbox = None
    /\ tree_bounds = None /\ bounding_box = None /\ hist = None
    /\ stale = None /\ last = None
NoPolygon == vertices = None /\ convex = None /\ simple = None /\ mutated = None
NoLine == direction = None /\ normal = None /\ assigned = None
NoAffine == transform = None /\ anchor = None /\ product = None
NoBoxes == bbox_a = None /\ bbox_b = None /\ collides = None
NoPoint == query_point = None /\ is_inside = None
NoEpsilon ==
    /\ planar_EPSILON = None /\ planar_EPSILON2 = None /\ old_e = None
    /\ vec = None /\ vec_dict = None /\ is_null_read = None
NoHull == hull_points = None /\ qhull = None /\ ghull = None
NoSimple == poly = None /\ swept = None /\ brute = None
NoIsect == isect_line = None /\ isect_bbox = None /\ isect_points = None
NoRay == ray = None /\ ray_point = None /\ ray_sides = None

(* _QuadTreeNode(center, size, members, child) *)
QuadTreeNode(center, size, members, child) ==
    [center |-> center, size |-> size, members |-> members, child |-> child]

(* The non-empty argument tuples of add, add_static, remove and update. *)
ArgTuples == UNION { [1..n -> Shapes] : n \in 1..MaxArgs }

Range(seq) == { seq[i] : i \in DOMAIN seq }

EmptyDict == [s \in {} |-> None]

(* A call: the method, its shape arguments, what it raised, what it
   returned, what it yielded, and update's list of dirty shapes. *)
Call(op, shape, dirty, raised, returned, yielded) ==
    [op |-> op, shape |-> shape, dirty |-> dirty, raised |-> raised,
     returned |-> returned, yielded |-> yielded]

(***************************************************************************)
(* Helpers for Python's dict and list, and for naming the nodes of qtree.  *)
(***************************************************************************)
(* d[k] = v *)
DictSet(d, k, v) == [x \in DOMAIN d \cup {k} |-> IF x = k THEN v ELSE d[x]]

(* del d[k] *)
DictDel(d, k) == [x \in DOMAIN d \ {k} |-> d[x]]

(* list.remove(x): drops the first occurrence; the caller checks x is there *)
ListRemove(seq, x) ==
    LET i == CHOOSE i \in DOMAIN seq :
                 seq[i] = x /\ \A j \in 1..(i - 1) : seq[j] # x
    IN  SubSeq(seq, 1, i - 1) \o SubSeq(seq, i + 1, Len(seq))

(* "not node.child": None and the empty list are both false *)
NoChild(node) == node.child = None \/ Val(node.child) = <<>>

RECURSIVE NodeAt(_, _)
NodeAt(node, path) ==
    IF path = <<>> THEN node
    ELSE NodeAt(Val(node.child)[Head(path)], Tail(path))

RECURSIVE WithMembers(_, _, _)
WithMembers(node, path, members) ==
    IF path = <<>> THEN [node EXCEPT !.members = members]
    ELSE [node EXCEPT !.child = Some([Val(node.child) EXCEPT ![Head(path)] =
             WithMembers(Val(node.child)[Head(path)], Tail(path), members)])]

(* The paths of the nodes of the tree below and including node. *)
RECURSIVE NodePaths(_, _)
NodePaths(node, path) ==
    {path} \cup
    (IF NoChild(node) THEN {}
     ELSE UNION { NodePaths(Val(node.child)[i], Append(path, i)) :
                    i \in DOMAIN Val(node.child) })

(* The nodes whose member list holds the shape. *)
NodesListing(member) ==
    { p \in NodePaths(qtree, <<>>) : member \in Range(NodeAt(qtree, p).members) }

(***************************************************************************)
(* QuadTreeSpace.__contains__, __len__, contains_static, is_dirty,         *)
(* dirty_shapes.                                                           *)
(***************************************************************************)
contains(shape) == shape \in DOMAIN members_to_nodes

len == Cardinality(DOMAIN members_to_nodes)

contains_static(shape) ==
    shape \in DOMAIN members_to_nodes /\ shape \notin DOMAIN members_to_bbox

(* is_dirty(shape); raises KeyError when shape has no recorded box *)
is_dirty(shape) == members_to_bbox[shape] # shape_bbox[shape]

dirty_shapes == { s \in DOMAIN members_to_bbox : members_to_bbox[s] # shape_bbox[s] }

(***************************************************************************)
(* QuadTreeSpace._find_nodes_for_member(node, member), called with         *)
(* member_bbox and nodes left at None: what it raises, or the nodes found. *)
(*                                                                         *)
(*   line 250  node.bbox: _QuadTreeNode has the slots center, size,        *)
(*             members and child only, so reading it raises                *)
(*             AttributeError; it is read when node.center is set and the  *)
(*             member's box contains it.                                   *)
(*   line 257  a full leaf calls _split(node).  No call reaches a full     *)
(*             leaf (DeadCodeUnreached below), and the result is marked    *)
(*             "unreached".                                                *)
(*   line 267-278  every recursive call names member_nodes, which is not   *)
(*             defined: NameError.  One of the four calls is always made,  *)
(*             since min <= max on both axes.                              *)
(***************************************************************************)
find_nodes_for_member(tree, bboxes, path, member) ==
    LET node == NodeAt(tree, path)
        member_bbox ==
            IF ~implicit_updates /\ member \in DOMAIN bboxes
            THEN bboxes[member]
            ELSE shape_bbox[member]
        found_leaf_node == NoChild(node) /\ Len(node.members) < node_capacity
    IN  IF node.center # None /\ contains_point(member_bbox, Val(node.center))
        THEN [raised |-> "AttributeError", nodes |-> <<>>]
        ELSE IF NoChild(node) /\ ~found_leaf_node
        THEN [raised |-> "unreached", nodes |-> <<>>]
        ELSE IF found_leaf_node
        THEN [raised |-> NoError, nodes |-> <<path>>]
        ELSE IF node.center = None
        THEN [raised |-> "TypeError", nodes |-> <<>>]
        ELSE [raised |-> "NameError", nodes |-> <<>>]

(***************************************************************************)
(* QuadTreeSpace.add_static(shape, ...), lines 210-226, as what it raises and  *)
(* the bounding_box it leaves.                                             *)
(*                                                                         *)
(*   line 210-213  with _tree_bounds set the root may be expanded; it is   *)
(*             set by _split and _expand_root alone, which no call reaches *)
(*             (DeadCodeUnreached), and the result is marked "unreached".  *)
(*   line 217  the loop variable is new_member, and the call names member, *)
(*             which add_static does not define: the first shape that is   *)
(*             not yet a key of _members_to_nodes raises NameError, before *)
(*             anything is stored.                                         *)
(***************************************************************************)
add_static(shape) ==
    LET boxes == { shape_bbox[s] : s \in Range(shape) }
    IN  IF tree_bounds # None
        THEN [raised |-> "unreached", bounding_box |-> bounding_box]
        ELSE IF \E i \in DOMAIN shape : shape[i] \notin DOMAIN members_to_nodes
        THEN [raised |-> "NameError", bounding_box |-> bounding_box]
        ELSE [raised |-> NoError,
              bounding_box |->
                  IF bounding_box # None
                  THEN Some(from_shapes({Val(bounding_box)} \cup boxes))
                  ELSE Some(from_shapes(boxes))]

(* The calls made for a shape since it was last removed, as far as the
   claims tell them apart. *)
HistAfter(h, op) ==
    CASE h = "none" -> op
      [] h = "add_static" /\ op = "add" -> "add_static_then_add"
      [] OTHER -> h

(* QuadTreeSpace.add(shape, ...) *)
Add(shape) ==
    LET recorded ==
            [s \in DOMAIN members_to_bbox \cup
                   (Range(shape) \ DOMAIN members_to_nodes) |->
                IF s \in Range(shape) /\ s \notin DOMAIN members_to_nodes
                THEN shape_bbox[s] ELSE members_to_bbox[s]]
        res == add_static(shape)
    IN  /\ members_to_bbox' = recorded
        /\ bounding_box' = res.bounding_box
        /\ hist' = [s \in Shapes |->
                      IF s \in Range(shape) THEN HistAfter(hist[s], "add")
                      ELSE hist[s]]
        /\ stale' = stale \ { s \in Range(shape) : hist[s] = "none" }
        /\ last' = Call("add", <<>>, <<>>, res.raised, 0, {})
        /\ UNCHANGED <<polygonVars, lineVars, affineVars, boxVars, pointVars,
                       epsilonVars, hullVars, simpleVars, isectVars, rayVars>>
        /\ UNCHANGED <<shape_bbox, implicit_updates, qtree, members_to_nodes,
                       tree_bounds>>

(* QuadTreeSpace.add_static(shape, ...) *)
AddStatic(shape) ==
    LET res == add_static(shape)
    IN  /\ bounding_box' = res.bounding_box
        /\ hist' = [s \in Shapes |->
                      IF s \in Range(shape) THEN HistAfter(hist[s], "add_static")
                      ELSE hist[s]]
        /\ stale' = stale \ { s \in Range(shape) : hist[s] = "none" }
        /\ last' = Call("add_static", <<>>, <<>>, res.raised, 0, {})
        /\ UNCHANGED <<polygonVars, lineVars, affineVars, boxVars, pointVars,
                       epsilonVars, hullVars, simpleVars, isectVars, rayVars>>
        /\ UNCHANGED <<shape_bbox, implicit_updates, qtree, members_to_nodes,
                       members_to_bbox, tree_bounds>>

(***************************************************************************)
(* QuadTreeSpace.remove(shape, ...).  st is the space as the loop has left it. *)
(***************************************************************************)
RECURSIVE remove_from_nodes(_, _, _)
remove_from_nodes(tree, paths, member) ==
    IF paths = <<>> THEN [raised |-> NoError, qtree |-> tree]
    ELSE LET node == NodeAt(tree, Head(paths))
         IN  IF member \notin Range(node.members)
             THEN [raised |-> "ValueError", qtree |-> tree]
             ELSE remove_from_nodes(
                      WithMembers(tree, Head(paths),
                                  ListRemove(node.members, member)),
                      Tail(paths), member)

RECURSIVE remove(_, _)
remove(st, shape) ==
    IF shape = <<>> THEN st
    ELSE LET member == Head(shape)
         IN  IF member \notin DOMAIN st.members_to_nodes
             THEN remove(st, Tail(shape))
             ELSE LET r == remove_from_nodes(st.qtree,
                               st.members_to_nodes[member], member)
                  IN  IF r.raised # NoError
                      THEN [st EXCEPT !.raised = r.raised, !.qtree = r.qtree]
                      ELSE remove(
                             [st EXCEPT
                                !.qtree = r.qtree,
                                !.members_to_nodes = DictDel(@, member),
                                !.members_to_bbox = DictDel(@, member)],
                             Tail(shape))

SpaceNow ==
    [qtree |-> qtree, members_to_nodes |-> members_to_nodes,
     members_to_bbox |-> members_to_bbox, raised |-> NoError]

Remove(shape) ==
    LET st == remove(SpaceNow, shape)
    IN  /\ qtree' = st.qtree
        /\ members_to_nodes' = st.members_to_nodes
        /\ members_to_bbox' = st.members_to_bbox
        /\ hist' = [s \in Shapes |-> IF s \in Range(shape) THEN "none" ELSE hist[s]]
        /\ stale' = stale \ Range(shape)
        /\ last' = Call("remove", shape, <<>>, st.raised, 0, {})
        /\ UNCHANGED <<polygonVars, lineVars, affineVars, boxVars, pointVars,
                       epsilonVars, hullVars, simpleVars, isectVars, rayVars>>
        /\ UNCHANGED <<shape_bbox, implicit_updates, tree_bounds, bounding_box>>

(***************************************************************************)
(* QuadTreeSpace.update(shape, ...), lines 436-458.  dirty is the list of  *)
(* shapes still to be handled, st the space as the loop has left it.       *)
(***************************************************************************)
RECURSIVE SetToSeq(_)
SetToSeq(set) ==
    IF set = {} THEN <<>>
    ELSE LET x == CHOOSE x \in set : TRUE IN <<x>> \o SetToSeq(set \ {x})

RECURSIVE append_to_nodes(_, _, _)
append_to_nodes(tree, paths, member) ==
    IF paths = <<>> THEN tree
    ELSE append_to_nodes(
             WithMembers(tree, Head(paths),
                         Append(NodeAt(tree, Head(paths)).members, member)),
             Tail(paths), member)

RECURSIVE update(_, _)
update(st, dirty) ==
    IF dirty = <<>> THEN st
    ELSE
      LET member == Head(dirty) IN
      IF member \notin DOMAIN st.members_to_nodes
      THEN [st EXCEPT !.raised = "KeyError"]
      ELSE
        LET current_nodes == st.members_to_nodes[member]
            found == find_nodes_for_member(st.qtree, st.members_to_bbox,
                                           <<>>, member)
            new_nodes == found.nodes
            new_set == Range(new_nodes)
            old_set == Range(current_nodes)
            removed == remove_from_nodes(st.qtree, SetToSeq(old_set \ new_set),
                                         member)
            refreshed(s) ==
                IF member \in DOMAIN s.members_to_bbox
                THEN [s EXCEPT !.members_to_bbox =
                                  DictSet(@, member, shape_bbox[member])]
                ELSE s
        IN  IF found.raised # NoError
            THEN [st EXCEPT !.raised = found.raised]
            ELSE IF new_nodes = current_nodes
            THEN update(refreshed(st), Tail(dirty))
            ELSE IF removed.raised # NoError
            THEN [st EXCEPT !.raised = removed.raised, !.qtree = removed.qtree]
            ELSE update(
                   refreshed(
                     [st EXCEPT
                        !.qtree = append_to_nodes(removed.qtree,
                                      SetToSeq(new_set \ old_set), member),
                        !.members_to_nodes = DictSet(@, member, new_nodes)]),
                   Tail(dirty))

(* line 442: the shapes given whose recorded box is not their current one;
   a shape with no recorded box is always dirty (None != box) *)
dirty_of(shape) ==
    SelectSeq(shape, LAMBDA s : \/ s \notin DOMAIN members_to_bbox
                                \/ members_to_bbox[s] # shape_bbox[s])

(* update(shape, ...) with at least one shape *)
Update(shape) ==
    LET dirty == dirty_of(shape)
        st == update(SpaceNow, dirty)
    IN  /\ qtree' = st.qtree
        /\ members_to_nodes' = st.members_to_nodes
        /\ members_to_bbox' = st.members_to_bbox
        /\ stale' = IF st.raised = NoError THEN stale \ Range(shape) ELSE stale
        /\ last' = Call("update", shape, dirty, st.raised,
                        IF st.raised = NoError THEN Len(dirty) ELSE 0, {})
        /\ UNCHANGED <<polygonVars, lineVars, affineVars, boxVars, pointVars,
                       epsilonVars, hullVars, simpleVars, isectVars, rayVars>>
        /\ UNCHANGED <<shape_bbox, implicit_updates, tree_bounds, bounding_box,
                       hist>>

(***************************************************************************)
(* update() without arguments.  dirty is then the generator dirty_shapes() *)
(* (line 437), which the loop consumes in the dict's order; line 458 takes *)
(* len() of that generator, which raises TypeError whenever the loop has   *)
(* come to its end.                                                        *)
(***************************************************************************)
UpdateAll ==
    \E dirty \in { q \in [1..Cardinality(dirty_shapes) -> dirty_shapes] :
                     Range(q) = dirty_shapes } :
        LET st == update(SpaceNow, dirty)
            raised == IF st.raised = NoError THEN "TypeError" ELSE st.raised
        IN  /\ qtree' = st.qtree
            /\ members_to_nodes' = st.members_to_nodes
            /\ members_to_bbox' = st.members_to_bbox
            /\ stale' = stale
            /\ last' = Call("update_all", <<>>, dirty, raised,
                            IF raised = NoError THEN Len(dirty) ELSE 0, {})
            /\ UNCHANGED <<polygonVars, lineVars, affineVars, boxVars, pointVars,
                           epsilonVars, hullVars, simpleVars, isectVars, rayVars>>
            /\ UNCHANGED <<shape_bbox, implicit_updates, tree_bounds,
                           bounding_box, hist>>

(* The host program changes a shape, and with it the shape's bounding_box. *)
Move(s, box) ==
    /\ box # shape_bbox[s]
    /\ shape_bbox' = [shape_bbox EXCEPT ![s] = box]
    /\ stale' = stale \cup {s}
    /\ last' = Call("move", <<>>, <<>>, NoError, 0, {})
    /\ UNCHANGED <<polygonVars, lineVars, affineVars, boxVars, pointVars,
                   epsilonVars, hullVars, simpleVars, isectVars, rayVars>>
    /\ UNCHANGED <<implicit_updates, qtree, members_to_nodes, members_to_bbox,
                   tree_bounds, bounding_box, hist>>

(***************************************************************************)
(* The coarse queries, each as what it raises and the shapes it yields.    *)
(***************************************************************************)
(* coarse_collide_point, lines 490-501 *)
RECURSIVE point_descent(_, _)
point_descent(node, point) ==
    { m \in Range(node.members) : contains_point(shape_bbox[m], point) }
    \cup
    (IF NoChild(node) THEN {}
     ELSE LET cx == Val(node.center)[1]
              cy == Val(node.center)[2]
              index == (IF point[1] > cx THEN 1 ELSE 0)
                       + (IF point[2] > cy THEN 2 ELSE 0)
          IN  point_descent(Val(node.child)[index + 1], point))

coarse_collide_point(point) ==
    IF bounding_box = None
    THEN [raised |-> "AttributeError", yielded |-> {}]
    ELSE IF contains_point(Val(bounding_box), point)
    THEN [raised |-> NoError, yielded |-> point_descent(qtree, point)]
    ELSE [raised |-> NoError, yielded |-> {}]

(* _filter_node_members with coarse_collide_shape's filter, lines 550-584 *)
filter_node_members(nodes, shape_box) ==
    { m \in UNION { Range(NodeAt(qtree, p).members) : p \in Range(nodes) } :
        bbox_collides_bbox(shape_box, shape_bbox[m]) }

(* coarse_collide_shape, lines 574-584.  _collide_nodes unpacks node.center
   first (line 525), a TypeError at a root without center; with a center it
   is marked "unreached" (DeadCodeUnreached). *)
coarse_collide_shape(shape) ==
    LET shape_box == shape_bbox[shape] IN
    IF shape \in DOMAIN members_to_nodes
    THEN [raised |-> NoError,
          yielded |-> filter_node_members(members_to_nodes[shape], shape_box)]
    ELSE IF bounding_box = None
    THEN [raised |-> "AttributeError", yielded |-> {}]
    ELSE IF bbox_collides_bbox(shape_box, Val(bounding_box))
    THEN [raised |-> IF qtree.center = None THEN "TypeError" ELSE "unreached",
          yielded |-> {}]
    ELSE [raised |-> NoError, yielded |-> {}]

(* coarse_self_collide / _self_collide_node, lines 586-637: with no members
   in the node the loop over node.child is all that runs, and the root is
   built with child=None (line 172), which is not iterable.  A node with
   members or children is marked "unreached" (DeadCodeUnreached). *)
coarse_self_collide ==
    IF qtree.members # <<>> THEN [raised |-> "unreached", yielded |-> {}]
    ELSE IF qtree.child = None THEN [raised |-> "TypeError", yielded |-> {}]
    ELSE IF Val(qtree.child) = <<>> THEN [raised |-> NoError, yielded |-> {}]
    ELSE [raised |-> "unreached", yielded |-> {}]

CoarseCollidePoint(point) ==
    /\ last' = Call("coarse_collide_point", <<>>, <<>>,
                    coarse_collide_point(point).raised, 0,
                    coarse_collide_point(point).yielded)
    /\ UNCHANGED <<polygonVars, lineVars, affineVars, boxVars, pointVars,
                   epsilonVars, hullVars, simpleVars, isectVars, rayVars>>
    /\ UNCHANGED <<shape_bbox, implicit_updates, qtree, members_to_nodes,
                   members_to_bbox, tree_bounds, bounding_box, hist, stale>>

CoarseCollideShape(shape) ==
    /\ last' = Call("coarse_collide_shape", <<>>, <<>>,
                    coarse_collide_shape(shape).raised, 0,
                    coarse_collide_shape(shape).yielded)
    /\ UNCHANGED <<polygonVars, lineVars, affineVars, boxVars, pointVars,
                   epsilonVars, hullVars, simpleVars, isectVars, rayVars>>
    /\ UNCHANGED <<shape_bbox, implicit_updates, qtree, members_to_nodes,
                   members_to_bbox, tree_bounds, bounding_box, hist, stale>>

CoarseSelfCollide ==
    /\ last' = Call("coarse_self_collide", <<>>, <<>>,
                    coarse_self_collide.raised, 0, {})
    /\ UNCHANGED <<polygonVars, lineVars, affineVars, boxVars, pointVars,
                   epsilonVars, hullVars, simpleVars, isectVars, rayVars>>
    /\ UNCHANGED <<shape_bbox, implicit_updates, qtree, members_to_nodes,
                   members_to_bbox, tree_bounds, bounding_box, hist, stale>>

(* collide_enclosed, lines 709-716: bbox_collides_bbox reads
   self.bounding_box.max_point first, an AttributeError while the space's
   bounding_box is None.  With a bounding box the method returns None when
   the boxes do not collide, and otherwise goes through _collide_nodes as
   coarse_collide_shape does. *)
collide_enclosed(box) ==
    IF bounding_box = None
    THEN [raised |-> "AttributeError", yielded |-> {}]
    ELSE IF bbox_collides_bbox(box, Val(bounding_box))
    THEN [raised |-> IF qtree.center = None THEN "TypeError" ELSE "unreached",
          yielded |-> {}]
    ELSE [raised |-> NoError, yielded |-> {}]

(* remove_enclosed, lines 749-761: the same first test; then _decend_tree
   iterates node.child, which is None at the root built by __init__.  The
   set returned with with_results=True is the yielded field. *)
remove_enclosed(box, with_results) ==
    IF bounding_box = None
    THEN [raised |-> "AttributeError", yielded |-> {}]
    ELSE IF bbox_collides_bbox(box, Val(bounding_box))
    THEN [raised |-> IF qtree.child = None THEN "TypeError" ELSE "unreached",
          yielded |-> {}]
    ELSE [raised |-> NoError, yielded |-> {}]

CollideEnclosed(box) ==
    /\ last' = Call("collide_enclosed", <<>>, <<>>,
                    collide_enclosed(box).raised, 0,
                    collide_enclosed(box).yielded)
    /\ UNCHANGED <<polygonVars, lineVars, affineVars, boxVars, pointVars,
                   epsilonVars, hullVars, simpleVars, isectVars, rayVars>>
    /\ UNCHANGED <<shape_bbox, implicit_updates, qtree, members_to_nodes,
                   members_to_bbox, tree_bounds, bounding_box, hist, stale>>

RemoveEnclosed(box, with_results) ==
    /\ last' = Call(IF with_results THEN "remove_enclosed_with_results"
                    ELSE "remove_enclosed", <<>>, <<>>,
                    remove_enclosed(box, with_results).raised, 0,
                    remove_enclosed(box, with_results).yielded)
    /\ UNCHANGED <<polygonVars, lineVars, affineVars, boxVars, pointVars,
                   epsilonVars, hullVars, simpleVars, isectVars, rayVars>>
    /\ UNCHANGED <<shape_bbox, implicit_updates, qtree, members_to_nodes,
                   members_to_bbox, tree_bounds, bounding_box, hist, stale>>

(* QuadTreeSpace.__init__ *)
Init ==
    /\ shape_bbox \in [Shapes -> {BoundingBox(0, 0, 1, 1)}]
    /\ implicit_updates \in BOOLEAN
    /\ qtree = QuadTreeNode(None, 0, <<>>, None)
    /\ members_to_nodes = EmptyDict
    /\ members_to_bbox = EmptyDict
    /\ tree_bounds = None
    /\ bounding_box = None
    /\ hist = [s \in Shapes |-> "none"]
    /\ stale = {}
    /\ last = Call("init", <<>>, <<>>, NoError, 0, {})
    /\ NoPolygon /\ NoLine /\ NoAffine /\ NoBoxes /\ NoPoint /\ NoEpsilon
    /\ NoHull /\ NoSimple /\ NoIsect /\ NoRay

Next ==
    \/ \E shape \in ArgTuples : Add(shape)
    \/ \E shape \in ArgTuples : AddStatic(shape)
    \/ \E shape \in ArgTuples : Remove(shape)
    \/ \E shape \in ArgTuples : Update(shape)
    \/ UpdateAll
    \/ \E s \in Shapes, box \in Boxes : Move(s, box)
    \/ \E point \in Points : CoarseCollidePoint(point)
    \/ \E s \in Shapes : CoarseCollideShape(s)
    \/ CoarseSelfCollide
    \/ \E box \in Boxes : CollideEnclosed(box)
    \/ \E box \in Boxes, with_results \in BOOLEAN :
          RemoveEnclosed(box, with_results)

Spec == Init /\ [][Next]_vars

(***************************************************************************)
(* The statements marked "unreached" above are never executed: no shape    *)
(* ever becomes a key of _members_to_nodes or a member of a node, the root *)
(* is never replaced, split or expanded, and _tree_bounds and bounding_box *)
(* stay None.                                                              *)
(***************************************************************************)
DeadCodeUnreached ==
    /\ last.raised # "unreached"
    /\ qtree = QuadTreeNode(None, 0, <<>>, None)
    /\ members_to_nodes = EmptyDict
    /\ tree_bounds = None
    /\ bounding_box = None
    /\ \A s \in Shapes :
          /\ coarse_collide_shape(s).raised # "unreached"
          /\ find_nodes_for_member(qtree, members_to_bbox, <<>>, s).raised
                = NoError
    /\ coarse_self_collide.raised # "unreached"
    /\ \A box \in Boxes :
          /\ collide_enclosed(box).raised # "unreached"
          /\ remove_enclosed(box, TRUE).raised # "unreached"

(***************************************************************************)
(* Polygon (lib/planar/polygon.py).  Vertices are points with integer      *)
(* coordinates; every test the code makes on them is a sign of a sum of    *)
(* products, which integers decide as floats do.  The base class           *)
(* planar.Seq2 is not among the source files: a polygon is the sequence of *)
(* its vertices, indexed as a Python sequence is (Item), as the            *)
(* specification describes it.                                             *)
(***************************************************************************)
MaxVertex == 2

(* A triangle, and a polygon of more than 3 vertices. *)
PolygonSizes == {3, 4}

(* The points a vertex is put on: MaxVertex + 1 columns of three rows. *)
GridRows == {0, 1, 2}
Grid == (0..MaxVertex) \X GridRows

(* _unknown = object(), the value of a cached property not yet computed;
   a computed one is Some(TRUE) or Some(FALSE). *)
unknown == None

(* self[i] for a Python index i, negative ones counting from the end. *)
Item(verts, i) == verts[(i % Len(verts)) + 1]

(* The Python indexes of a sequence of n items. *)
Indexes(n) == (0 - n)..(n - 1)

(* Vec2.__sub__ and Vec2.cross *)
sub(v, w) == <<v[1] - w[1], v[2] - w[2]>>
cross(v, w) == v[1] * w[2] - v[2] * w[1]

(* Polygon._iter_edge_vectors, filtered as _classify filters it: the edges
   self[i] - self[i - 1] that are not the zero vector, in order. *)
RECURSIVE edge_vectors(_, _)
edge_vectors(verts, i) ==
    IF i >= Len(verts) THEN <<>>
    ELSE LET delta == sub(Item(verts, i), Item(verts, i - 1))
         IN  (IF delta = <<0, 0>> THEN <<>> ELSE <<delta>>)
                 \o edge_vectors(verts, i + 1)

(* The direction code of an edge in _classify. *)
edge_dir(delta) ==
    IF delta[1] > 0 THEN -1
    ELSE IF delta[1] < 0 THEN 1
    ELSE IF delta[2] > 0 THEN -1
    ELSE IF delta[2] < 0 THEN 1
    ELSE 0

(* The loop of _classify over the remaining edges; st holds its local
   variables.  A break leaves the loop with convex false. *)
RECURSIVE classify_loop(_, _)
classify_loop(deltas, st) ==
    IF deltas = <<>> THEN st
    ELSE LET delta == Head(deltas)
             this_dir == edge_dir(delta)
             c == cross(st.last_delta, delta)
             st1 == [st EXCEPT
                        !.is_null = FALSE,
                        !.dir_changes =
                            @ + (IF this_dir = 0 - st.last_dir THEN 1 ELSE 0),
                        !.last_dir = this_dir]
         IN  IF c > 0 /\ st.angle_sign = -1
             THEN [st1 EXCEPT !.convex = FALSE]
             ELSE IF c < 0 /\ st.angle_sign = 1
             THEN [st1 EXCEPT !.convex = FALSE]
             ELSE classify_loop(Tail(deltas),
                      [st1 EXCEPT
                          !.angle_sign =
                              IF c > 0 THEN 1 ELSE IF c < 0 THEN -1 ELSE @,
                          !.last_delta = delta])

(* The local variables of _classify when its loop has ended. *)
classify_locals(verts) ==
    LET last_delta == sub(Item(verts, -1), Item(verts, -2))
    IN  classify_loop(edge_vectors(verts, 0),
            [dir_changes |-> 0, angle_sign |-> 0, is_null |-> TRUE,
             convex |-> TRUE, last_delta |-> last_delta,
             last_dir |-> edge_dir(last_delta)])

(* A _classify whose last assignment reads self._simple = self._convex. *)
classify_simple_as_convex(verts) ==
    LET st == classify_locals(verts)
        is_convex == st.convex /\ st.dir_changes <= 2
    IN  [convex |-> Some(is_convex), simple |-> Some(is_convex)]

(* Polygon._classify: the values it leaves in _convex and _simple. *)
classify(verts) ==
    LET st == classify_locals(verts)
        is_convex == st.convex /\ st.dir_changes <= 2
    IN  [convex |-> Some(is_convex),
         simple |-> IF is_convex THEN Some(TRUE) ELSE unknown]

(* Polygon._segments_intersect *)
segments_intersect(a, b, c, d) ==
    LET dir1 == (b[1] - a[1]) * (c[2] - a[2]) - (c[1] - a[1]) * (b[2] - a[2])
        dir2 == (b[1] - a[1]) * (d[2] - a[2]) - (d[1] - a[1]) * (b[2] - a[2])
        dir3 == (d[1] - c[1]) * (a[2] - c[2]) - (a[1] - c[1]) * (d[2] - c[2])
        dir4 == (d[1] - c[1]) * (b[2] - c[2]) - (b[1] - c[1]) * (d[2] - c[2])
    IN  IF (dir1 > 0) # (dir2 > 0) \/ (dir1 = 0) # (dir2 = 0)
        THEN (dir3 > 0) # (dir4 > 0) \/ (dir3 = 0) # (dir4 = 0)
        ELSE FALSE

(* Python's order on tuples of numbers: lexicographic. *)
RECURSIVE tuple_less(_, _)
tuple_less(s, u) ==
    IF s = <<>> \/ u = <<>> THEN s = <<>> /\ u # <<>>
    ELSE IF Head(s) # Head(u) THEN Head(s) < Head(u)
    ELSE tuple_less(Tail(s), Tail(u))

(* list.sort() *)
RECURSIVE insert_sorted(_, _)
insert_sorted(sorted, x) ==
    IF sorted = <<>> THEN <<x>>
    ELSE IF tuple_less(x, Head(sorted)) THEN <<x>> \o sorted
    ELSE <<Head(sorted)>> \o insert_sorted(Tail(sorted), x)

RECURSIVE sort(_)
sort(list) ==
    IF list = <<>> THEN <<>>
    ELSE insert_sorted(sort(Tail(list)), Head(list))

(* The list `points` of _check_is_simple before it is sorted: for each edge
   index i the edge from self[i - 1] to self[i], then each edge reversed.
   An entry is <<start x, start y, end x, end y, i>>. *)
sweep_points(verts) ==
    [k \in 1..Len(verts) |->
        Item(verts, k - 2) \o Item(verts, k - 1) \o <<k - 1>>]
    \o [k \in 1..Len(verts) |->
        Item(verts, k - 1) \o Item(verts, k - 2) \o <<k - 1>>]

Abs(x) == IF x < 0 THEN 0 - x ELSE x

(* The loop of _check_is_simple over the sorted points; open_segments is
   the dict of the segments whose start was passed and whose end was not,
   as the set of its values. *)
RECURSIVE sweep(_, _, _)
sweep(points, open_segments, last_index) ==
    IF points = <<>> THEN TRUE
    ELSE LET p == Head(points)
             index == p[5]
         IN  IF \A o \in open_segments : o[5] # index
             THEN IF \E o \in open_segments :
                        /\ last_index > Abs(index - o[5])
                        /\ Abs(index - o[5]) > 1
                        /\ segments_intersect(<<p[1], p[2]>>, <<p[3], p[4]>>,
                                              <<o[1], o[2]>>, <<o[3], o[4]>>)
                  THEN FALSE
                  ELSE sweep(Tail(points), open_segments \cup {p}, last_index)
             ELSE sweep(Tail(points),
                        { o \in open_segments : o[5] # index }, last_index)

(* Polygon._check_is_simple: the value it returns and caches. *)
check_is_simple(verts) ==
    sweep(sort(sweep_points(verts)), {}, Len(verts) - 1)

(* A _clear_cached_properties without the test of the length. *)
clear_as_triangle(verts) ==
    [convex |-> Some(TRUE), simple |-> Some(TRUE)]

(* Polygon._clear_cached_properties: the values it leaves in _convex and
   _simple. *)
clear_cached_properties(verts) ==
    IF Len(verts) > 3
    THEN [convex |-> unknown, simple |-> unknown]
    ELSE [convex |-> Some(TRUE), simple |-> Some(TRUE)]

(* Polygon.is_convex_known, is_simple_known *)
is_convex_known == convex # unknown
is_simple_known == simple # unknown

(* Polygon.__setitem__(index, vert) *)
SetItem(index, vert) ==
    LET verts == [vertices EXCEPT ![(index % Len(vertices)) + 1] = vert]
    IN  /\ vertices' = verts
        /\ convex' = clear_cached_properties(verts).convex
        /\ simple' = clear_cached_properties(verts).simple
        /\ mutated' = TRUE
        /\ UNCHANGED <<spaceVars, lineVars, affineVars, boxVars, pointVars, epsilonVars,
                       hullVars, simpleVars, isectVars, rayVars>>

(* Reading Polygon.is_convex; the value returned is _convex afterwards. *)
IsConvex ==
    /\ IF convex = unknown
       THEN /\ convex' = classify(vertices).convex
            /\ simple' = classify(vertices).simple
       ELSE UNCHANGED <<convex, simple>>
    /\ UNCHANGED <<vertices, mutated>>
    /\ UNCHANGED <<spaceVars, lineVars, affineVars, boxVars, pointVars, epsilonVars,
                   hullVars, simpleVars, isectVars, rayVars>>

(* Reading Polygon.is_simple; the value returned is _simple afterwards. *)
IsSimple ==
    /\ IF simple # unknown
       THEN UNCHANGED <<convex, simple>>
       ELSE LET classified ==
                    IF convex = unknown THEN classify(vertices)
                    ELSE [convex |-> convex, simple |-> simple]
            IN  /\ convex' = classified.convex
                /\ simple' = IF classified.simple = unknown
                             THEN Some(check_is_simple(vertices))
                             ELSE classified.simple
    /\ UNCHANGED <<vertices, mutated>>
    /\ UNCHANGED <<spaceVars, lineVars, affineVars, boxVars, pointVars, epsilonVars,
                   hullVars, simpleVars, isectVars, rayVars>>

(* Polygon.__init__ *)
PolygonInit ==
    /\ \E n \in PolygonSizes : vertices \in [1..n -> Grid]
    /\ convex = clear_cached_properties(vertices).convex
    /\ simple = clear_cached_properties(vertices).simple
    /\ mutated = FALSE
    /\ NoSpace /\ NoLine /\ NoAffine /\ NoBoxes /\ NoPoint /\ NoEpsilon
    /\ NoHull /\ NoSimple /\ NoIsect /\ NoRay

PolygonNext ==
    \/ \E index \in Indexes(Len(vertices)), vert \in Grid : SetItem(index, vert)
    \/ IsConvex
    \/ IsSimple

PolygonSpec == PolygonInit /\ [][PolygonNext]_vars

(***************************************************************************)
(* The crossing test for a point in a polygon (attic/polygon.py).  The     *)
(* polygon is the self-overlapping one of test_contains_point_non_simple;  *)
(* coordinates are counted in halves, so that the points (-0.5, 0.5) and   *)
(* (0.5, -0.5) are <<-1, 1>> and <<1, -1>>.  The test compares products of *)
(* differences of coordinates, which the change of unit multiplies by 4 on *)
(* both sides.                                                             *)
(***************************************************************************)
MaxPoint == 5

NonSimplePolygon ==
    << <<4, -4>>, <<-4, -4>>, <<-4, 4>>, <<0, 4>>, <<0, -2>>,
       <<2, -2>>, <<2, 0>>, <<-2, 0>>, <<-2, 2>>, <<4, 2>> >>

QueryPoints == ((0 - MaxPoint)..MaxPoint) \X ((0 - MaxPoint)..MaxPoint)

(* The loop of _pnp_crossing_test from the k-th vertex on; v0 is the vertex
   before it and inside the local is_inside. *)
RECURSIVE pnp_loop(_, _, _, _, _)
pnp_loop(verts, k, v0, p, inside) ==
    IF k > Len(verts) THEN inside
    ELSE LET v1 == verts[k]
             v0_above == v0[2] >= p[2]
             v1_above == v1[2] >= p[2]
             crossed ==
                 /\ v0_above # v1_above
                 /\ ((v1[2] - p[2]) * (v0[1] - v1[1]) >=
                         (v1[1] - p[1]) * (v0[2] - v1[2])) = v1_above
         IN  pnp_loop(verts, k + 1, v1, p,
                      IF crossed THEN ~inside ELSE inside)

(* A crossing test that starts from is_inside = True. *)
pnp_crossing_test_from_inside(verts, p) ==
    pnp_loop(verts, 1, Item(verts, -1), p, TRUE)

(* Polygon._pnp_crossing_test *)
pnp_crossing_test(verts, p) ==
    pnp_loop(verts, 1, Item(verts, -1), p, FALSE)

(* A call of the test on the polygon. *)
CrossingTest ==
    /\ is_inside' = Some(pnp_crossing_test(NonSimplePolygon, query_point))
    /\ UNCHANGED query_point
    /\ UNCHANGED <<spaceVars, polygonVars, lineVars, affineVars, boxVars,
                   epsilonVars, hullVars, simpleVars, isectVars, rayVars>>

(* Another point to test. *)
NewPoint(p) ==
    /\ query_point' = p
    /\ is_inside' = None
    /\ UNCHANGED <<spaceVars, polygonVars, lineVars, affineVars, boxVars,
                   epsilonVars, hullVars, simpleVars, isectVars, rayVars>>

PointInit ==
    /\ query_point \in QueryPoints
    /\ is_inside = None
    /\ NoSpace /\ NoPolygon /\ NoLine /\ NoAffine /\ NoBoxes /\ NoEpsilon
    /\ NoHull /\ NoSimple /\ NoIsect /\ NoRay

PointNext ==
    \/ CrossingTest
    \/ \E p \in QueryPoints : NewPoint(p)

PointSpec == PointInit /\ [][PointNext]_vars

(***************************************************************************)
(* Vec2 (lib/planar/vector.py) and the direction and normal of a Line or a *)
(* Ray (LinearGeometry, lib/planar/line.py).  A coordinate is a whole      *)
(* number of fifths, so that 1.0 is One and the unit vectors of the model  *)
(* are the axes and the rotations and reflections of (0.6, 0.8); the       *)
(* vectors assigned are those whose length is a whole number of fifths,    *)
(* for which the square root and the division of normalized() are exact.   *)
(* The tolerance is the library's planar.EPSILON after set_epsilon(0.2),   *)
(* one fifth: the vectors assigned are shorter than it, as long as it, and *)
(* longer.  Squares (length2, EPSILON2) are in twenty-fifths.              *)
(***************************************************************************)
One == 5
EPSILON == 1
EPSILON2 == EPSILON * EPSILON

MaxLength == 4

(* vector.null = Vec2(0, 0) *)
null == <<0, 0>>

(* Vec2.length2 and Vec2.length, in the units of the model *)
length2(v) == v[1] * v[1] + v[2] * v[2]
length(v) == CHOOSE L \in 0..(Abs(v[1]) + Abs(v[2])) : L * L = length2(v)

(* The vectors assigned to direction and normal. *)
LineVectors ==
    { v \in ((0 - MaxLength)..MaxLength) \X ((0 - MaxLength)..MaxLength) :
        \E L \in 0..(2 * MaxLength) : L * L = length2(v) }

(* Vec2.is_null *)
is_null(v) == length2(v) < EPSILON2

(* Vec2.normalized: a vector of length 1.0, or null *)
normalized(v) ==
    IF length(v) > EPSILON
    THEN <<(v[1] * One) \div length(v), (v[2] * One) \div length(v)>>
    ELSE null

(* Vec2.perpendicular and Vec2.__neg__ *)
perpendicular(v) == <<0 - v[2], v[1]>>
neg(v) == <<0 - v[1], 0 - v[2]>>

(* A normal setter that puts in _direction what the direction setter puts
   in _normal. *)
normal_setter_negated(value) ==
    IF is_null(normalized(value))
    THEN [raised |-> "ValueError", direction |-> direction, normal |-> normal]
    ELSE [raised |-> NoError,
          normal |-> Some(normalized(value)),
          direction |-> Some(neg(perpendicular(normalized(value))))]

(* LinearGeometry.direction (setter): what it raises and what it leaves in
   _direction and _normal. *)
direction_setter(value) ==
    IF is_null(normalized(value))
    THEN [raised |-> "ValueError", direction |-> direction, normal |-> normal]
    ELSE [raised |-> NoError,
          direction |-> Some(normalized(value)),
          normal |-> Some(neg(perpendicular(normalized(value))))]

(* LinearGeometry.normal (setter) *)
normal_setter(value) ==
    IF is_null(normalized(value))
    THEN [raised |-> "ValueError", direction |-> direction, normal |-> normal]
    ELSE [raised |-> NoError,
          normal |-> Some(normalized(value)),
          direction |-> Some(perpendicular(normalized(value)))]

(* line.direction = value, also the assignment made by Line.__init__,
   Ray.__init__ and from_points. *)
SetDirection(value) ==
    /\ direction' = direction_setter(value).direction
    /\ normal' = direction_setter(value).normal
    /\ assigned' = Some([attribute |-> "direction", value |-> value,
                         raised |-> direction_setter(value).raised])
    /\ UNCHANGED <<spaceVars, polygonVars, affineVars, boxVars, pointVars,
                   epsilonVars, hullVars, simpleVars, isectVars, rayVars>>

(* line.normal = value, also the assignment made by Line.from_normal. *)
SetNormal(value) ==
    /\ direction' = normal_setter(value).direction
    /\ normal' = normal_setter(value).normal
    /\ assigned' = Some([attribute |-> "normal", value |-> value,
                         raised |-> normal_setter(value).raised])
    /\ UNCHANGED <<spaceVars, polygonVars, affineVars, boxVars, pointVars,
                   epsilonVars, hullVars, simpleVars, isectVars, rayVars>>

(* object.__new__(cls): a Line or Ray before its first assignment. *)
LineInit ==
    /\ direction = None /\ normal = None /\ assigned = None
    /\ NoSpace /\ NoPolygon /\ NoAffine /\ NoBoxes /\ NoPoint /\ NoEpsilon
    /\ NoHull /\ NoSimple /\ NoIsect /\ NoRay

LineNext ==
    \/ \E value \in LineVectors : SetDirection(value)
    \/ \E value \in LineVectors : SetNormal(value)

LineSpec == LineInit /\ [][LineNext]_vars

(***************************************************************************)
(* bbox_collides_bbox (lib/planar/shape_op.py) as a function of two boxes: *)
(* every pair of boxes with corners on a grid, boxes of zero width or      *)
(* height included.                                                        *)
(***************************************************************************)
MaxBox == 2

AllBoxes ==
    { BoundingBox(p[1], p[2], q[1], q[2]) :
        <<p, q>> \in { pq \in ((0..MaxBox) \X (0..MaxBox))
                                  \X ((0..MaxBox) \X (0..MaxBox)) :
                          pq[1][1] <= pq[2][1] /\ pq[1][2] <= pq[2][2] } }

(* op.bbox_collides_bbox(bbox_a, bbox_b) *)
CollidesBBox ==
    /\ collides = None
    /\ collides' = Some(bbox_collides_bbox(bbox_a, bbox_b))
    /\ UNCHANGED <<bbox_a, bbox_b>>
    /\ UNCHANGED <<spaceVars, polygonVars, lineVars, affineVars, pointVars,
                   epsilonVars, hullVars, simpleVars, isectVars, rayVars>>

BoxInit ==
    /\ bbox_a \in AllBoxes
    /\ bbox_b \in AllBoxes
    /\ collides = None
    /\ NoSpace /\ NoPolygon /\ NoLine /\ NoAffine /\ NoPoint /\ NoEpsilon
    /\ NoHull /\ NoSimple /\ NoIsect /\ NoRay

BoxNext == CollidesBBox

BoxSpec == BoxInit /\ [][BoxNext]_vars

(***************************************************************************)
(* Affine (lib/planar/transform.py).  A float is modelled by the rational  *)
(* number <<numerator, denominator>> in lowest terms, and the arithmetic   *)
(* is exact.  An Affine is the tuple of the six members of its first two   *)
(* rows; the third row is always (0, 0, 1).  A Vec2 is a pair of floats.   *)
(***************************************************************************)
MaxEntry == 1
MaxScale == 2

RECURSIVE gcd(_, _)
gcd(m, n) == IF n = 0 THEN m ELSE gcd(n, m % n)

Rat(n, d) ==
    LET g == gcd(Abs(n), Abs(d))
        s == IF d < 0 THEN 0 - 1 ELSE 1
    IN  <<(s * n) \div g, (s * d) \div g>>

float(i) == Rat(i, 1)
fadd(x, y) == Rat(x[1] * y[2] + y[1] * x[2], x[2] * y[2])
fneg(x) == <<0 - x[1], x[2]>>
fsub(x, y) == fadd(x, fneg(y))
fmul(x, y) == Rat(x[1] * y[1], x[2] * y[2])
fdiv(x, y) == Rat(x[1] * y[2], x[2] * y[1])
fabs(x) == <<Abs(x[1]), x[2]>>
flt(x, y) == x[1] * y[2] < y[1] * x[2]

(* planar.EPSILON as a float *)
epsilon == Rat(EPSILON, One)

(* Affine.__new__ *)
Affine(a, b, c, d, e, f) == <<a, b, c, d, e, f>>

identity == Affine(float(1), float(0), float(0), float(0), float(1), float(0))

(* The members given to Affine(...): whole numbers, and in the linear part
   also the value EPSILON, so that determinants below, at and above
   EPSILON all occur. *)
Translations == { float(i) : i \in (0 - MaxEntry)..MaxEntry }
Members == Translations \cup {epsilon}
Affines ==
    { Affine(m[1], m[2], m[3], m[4], m[5], m[6]) :
        m \in Members \X Members \X Translations
                \X Members \X Members \X Translations }

(* The arguments of Affine.scale: a scalar <<s>> or a vector <<sx, sy>>,
   and an anchor point or None. *)
Scales == { float(i) : i \in (0 - MaxScale)..MaxScale }
Scalings == { <<s>> : s \in Scales } \cup (Scales \X Scales)
Anchors == {None} \cup { Some(<<x, y>>) : x \in Translations, y \in Translations }

(* Affine.scale(scaling, anchor) *)
scale(scaling, anchor_point) ==
    LET sx == scaling[1]
        sy == IF Len(scaling) = 1 THEN scaling[1] ELSE scaling[2]
    IN  IF anchor_point = None
        THEN Affine(sx, float(0), float(0), float(0), sy, float(0))
        ELSE LET ax == Val(anchor_point)[1]
                 ay == Val(anchor_point)[2]
             IN  Affine(sx, float(0), fsub(fmul(sx, ax), ax),
                        float(0), sy, fsub(fmul(sy, ay), ay))

determinant(t) == fsub(fmul(t[1], t[5]), fmul(t[2], t[4]))

is_degenerate(t) == flt(fabs(determinant(t)), epsilon)

almost_equals(t, other) ==
    \A i \in 1..6 : flt(fabs(fsub(t[i], other[i])), epsilon)

(* Affine.__mul__, other an Affine *)
mul_affine(t, other) ==
    Affine(fadd(fmul(t[1], other[1]), fmul(t[2], other[4])),
           fadd(fmul(t[1], other[2]), fmul(t[2], other[5])),
           fadd(fadd(fmul(t[1], other[3]), fmul(t[2], other[6])), t[3]),
           fadd(fmul(t[4], other[1]), fmul(t[5], other[4])),
           fadd(fmul(t[4], other[2]), fmul(t[5], other[5])),
           fadd(fadd(fmul(t[4], other[3]), fmul(t[5], other[6])), t[6]))

(* Affine.__mul__, other a Vec2 *)
mul_vec(t, v) ==
    <<fadd(fadd(fmul(v[1], t[1]), fmul(v[2], t[2])), t[3]),
      fadd(fadd(fmul(v[1], t[4]), fmul(v[2], t[5])), t[6])>>

(* An inverse that inverts the linear part and keeps the translation. *)
invert_linear_part(t) ==
    IF is_degenerate(t)
    THEN [raised |-> "TransformNotInvertibleError", value |-> None]
    ELSE LET idet == fdiv(float(1), determinant(t))
         IN  [raised |-> NoError,
              value |-> Some(Affine(fmul(t[5], idet), fmul(fneg(t[2]), idet), t[3],
                                    fmul(fneg(t[4]), idet), fmul(t[1], idet), t[6]))]

(* Affine.__invert__ *)
invert(t) ==
    IF is_degenerate(t)
    THEN [raised |-> "TransformNotInvertibleError", value |-> None]
    ELSE LET idet == fdiv(float(1), determinant(t))
             ra == fmul(t[5], idet)
             rb == fmul(fneg(t[2]), idet)
             rd == fmul(fneg(t[4]), idet)
             re == fmul(t[1], idet)
         IN  [raised |-> NoError,
              value |-> Some(Affine(ra, rb, fsub(fmul(fneg(t[3]), ra), fmul(t[6], rb)),
                                    rd, re, fsub(fmul(fneg(t[3]), rd), fmul(t[6], re))))]

(* t = Affine(a, b, c, d, e, f) *)
NewAffine(t) ==
    /\ transform = None
    /\ transform' = Some(t)
    /\ UNCHANGED <<anchor, product>>
    /\ UNCHANGED <<spaceVars, polygonVars, lineVars, boxVars, pointVars, epsilonVars,
                   hullVars, simpleVars, isectVars, rayVars>>

(* t = Affine.scale(scaling, anchor) *)
Scale(scaling, anchor_point) ==
    /\ transform = None
    /\ transform' = Some(scale(scaling, anchor_point))
    /\ anchor' = anchor_point
    /\ UNCHANGED product
    /\ UNCHANGED <<spaceVars, polygonVars, lineVars, boxVars, pointVars, epsilonVars,
                   hullVars, simpleVars, isectVars, rayVars>>

(* t * anchor *)
MulAnchor ==
    /\ transform # None /\ anchor # None /\ product = None
    /\ product' = Some([op |-> "mul_anchor",
                        value |-> mul_vec(Val(transform), Val(anchor))])
    /\ UNCHANGED <<transform, anchor>>
    /\ UNCHANGED <<spaceVars, polygonVars, lineVars, boxVars, pointVars, epsilonVars,
                   hullVars, simpleVars, isectVars, rayVars>>

(* ~t, then t * ~t and ~t * t *)
Invert ==
    /\ transform # None /\ product = None
    /\ LET t == Val(transform)
           inverse == invert(t)
       IN  product' = Some([op |-> "invert",
                            raised |-> inverse.raised,
                            inverse |-> inverse.value,
                            right |-> IF inverse.raised = NoError
                                      THEN Some(mul_affine(t, Val(inverse.value)))
                                      ELSE None,
                            left |-> IF inverse.raised = NoError
                                     THEN Some(mul_affine(Val(inverse.value), t))
                                     ELSE None])
    /\ UNCHANGED <<transform, anchor>>
    /\ UNCHANGED <<spaceVars, polygonVars, lineVars, boxVars, pointVars, epsilonVars,
                   hullVars, simpleVars, isectVars, rayVars>>

AffineInit ==
    /\ transform = None /\ anchor = None /\ product = None
    /\ NoSpace /\ NoPolygon /\ NoLine /\ NoBoxes /\ NoPoint /\ NoEpsilon
    /\ NoHull /\ NoSimple /\ NoIsect /\ NoRay

AffineNext ==
    \/ \E t \in Affines : NewAffine(t)
    \/ \E scaling \in Scalings : \E anchor_point \in Anchors :
          Scale(scaling, anchor_point)
    \/ MulAnchor
    \/ Invert

AffineSpec == AffineInit /\ [][AffineNext]_vars

(***************************************************************************)
(* set_epsilon (lib/planar/__init__.py) and Vec2.is_null, a cached         *)
(* property (lib/planar/vector.py, util.py).  A float is here the decimal  *)
(* number <<n, k>>, n * 10^-k with n not a multiple of 10 unless k = 0, so *)
(* that 1e-5 and its square are both numbers of the model; the arithmetic  *)
(* is exact.                                                               *)
(***************************************************************************)
MaxMantissa == 2
Exponents == {0, 2, 5}

RECURSIVE Dec(_, _)
Dec(n, k) == IF k > 0 /\ n % 10 = 0 THEN Dec(n \div 10, k - 1) ELSE <<n, k>>

RECURSIVE times10(_, _)
times10(n, j) == IF j = 0 THEN n ELSE times10(n * 10, j - 1)
RECURSIVE floor10(_, _)
floor10(n, j) == IF j = 0 THEN n ELSE floor10(n \div 10, j - 1)
RECURSIVE ceil10(_, _)
ceil10(n, j) == IF j = 0 THEN n ELSE ceil10(0 - ((0 - n) \div 10), j - 1)

dec_mul(x, y) == Dec(x[1] * y[1], x[2] + y[2])
dec_add(x, y) ==
    IF x[2] >= y[2]
    THEN Dec(x[1] + times10(y[1], x[2] - y[2]), x[2])
    ELSE Dec(times10(x[1], y[2] - x[2]) + y[1], y[2])
dec_lt(x, y) ==
    IF x[2] >= y[2]
    THEN floor10(x[1], x[2] - y[2]) < y[1]
    ELSE x[1] < ceil10(y[1], y[2] - x[2])

(* The values given to set_epsilon: Python ints and floats. *)
EpsilonValues ==
    { [type |-> "int", value |-> <<i>>] : i \in (0 - 1)..MaxMantissa }
        \cup { [type |-> "float", value |-> Dec(m, k)] :
                  m \in 1..MaxMantissa, k \in Exponents }

(* float(epsilon) *)
float_of(number) ==
    IF number.type = "int" THEN Dec(number.value[1], 0) ELSE number.value

(* A set_epsilon that leaves EPSILON2 as it was. *)
set_epsilon_only(value_given, EPSILON2_before) ==
    [EPSILON |-> float_of(value_given), EPSILON2 |-> EPSILON2_before]

(* set_epsilon(epsilon): the two globals after the call *)
set_epsilon(value_given, EPSILON2_before) ==
    LET E == float_of(value_given)
    IN  [EPSILON |-> E, EPSILON2 |-> dec_mul(E, E)]

default_epsilon == [type |-> "float", value |-> Dec(1, 5)]

(* Vec2(x, y) with both coordinates of one magnitude *)
Vec2s ==
    { <<Dec(x, k), Dec(y, k)>> :
        x \in 0..MaxMantissa, y \in 0..MaxMantissa, k \in Exponents }

(* Vec2.length2, computed *)
vec_length2(v) == dec_add(dec_mul(v[1], v[1]), dec_mul(v[2], v[2]))

(* Vec2.is_null, computed *)
vec_is_null(v, EPSILON2_now) == dec_lt(vec_length2(v), EPSILON2_now)

(* util.cached_property: the getter of a property named name *)
cached_property(dict, name, computed) ==
    IF name \in DOMAIN dict
    THEN [value |-> dict[name], dict |-> dict]
    ELSE [value |-> computed,
          dict |-> [n \in DOMAIN dict \cup {name} |->
                        IF n = name THEN computed ELSE dict[n]]]

(* planar.set_epsilon(value_given) *)
SetEpsilon(value_given) ==
    /\ LET after == set_epsilon(value_given, planar_EPSILON2)
       IN  /\ planar_EPSILON' = after.EPSILON
           /\ planar_EPSILON2' = after.EPSILON2
    /\ UNCHANGED <<old_e, vec, vec_dict, is_null_read>>
    /\ UNCHANGED <<spaceVars, polygonVars, lineVars, affineVars, boxVars, pointVars,
                   hullVars, simpleVars, isectVars, rayVars>>

(* old_e = planar.EPSILON *)
SaveEpsilon ==
    /\ old_e = None
    /\ old_e' = Some(<<planar_EPSILON, planar_EPSILON2>>)
    /\ UNCHANGED <<planar_EPSILON, planar_EPSILON2, vec, vec_dict, is_null_read>>
    /\ UNCHANGED <<spaceVars, polygonVars, lineVars, affineVars, boxVars, pointVars,
                   hullVars, simpleVars, isectVars, rayVars>>

(* planar.set_epsilon(old_e) *)
RestoreEpsilon ==
    /\ old_e # None
    /\ LET after == set_epsilon([type |-> "float", value |-> Val(old_e)[1]],
                                planar_EPSILON2)
       IN  /\ planar_EPSILON' = after.EPSILON
           /\ planar_EPSILON2' = after.EPSILON2
    /\ UNCHANGED <<old_e, vec, vec_dict, is_null_read>>
    /\ UNCHANGED <<spaceVars, polygonVars, lineVars, affineVars, boxVars, pointVars,
                   hullVars, simpleVars, isectVars, rayVars>>

(* vec.is_null, a read *)
ReadIsNull ==
    /\ LET read == cached_property(vec_dict, "is_null",
                                   vec_is_null(vec, planar_EPSILON2))
       IN  /\ is_null_read' = Some([value |-> read.value,
                                     EPSILON2 |-> planar_EPSILON2])
           /\ vec_dict' = read.dict
    /\ UNCHANGED <<planar_EPSILON, planar_EPSILON2, old_e, vec>>
    /\ UNCHANGED <<spaceVars, polygonVars, lineVars, affineVars, boxVars, pointVars,
                   hullVars, simpleVars, isectVars, rayVars>>

EpsilonInit ==
    /\ LET loaded == set_epsilon(default_epsilon, None)
       IN  /\ planar_EPSILON = loaded.EPSILON
           /\ planar_EPSILON2 = loaded.EPSILON2
    /\ old_e = None
    /\ vec \in Vec2s
    /\ vec_dict = <<>>
    /\ is_null_read = None
    /\ NoSpace /\ NoPolygon /\ NoLine /\ NoAffine /\ NoBoxes /\ NoPoint
    /\ NoHull /\ NoSimple /\ NoIsect /\ NoRay

EpsilonNext ==
    \/ \E value_given \in EpsilonValues : SetEpsilon(value_given)
    \/ SaveEpsilon
    \/ RestoreEpsilon
    \/ ReadIsNull

EpsilonSpec == EpsilonInit /\ [][EpsilonNext]_vars

(***************************************************************************)
(* The two convex hulls of test/perf: quick_hull.convex_hull and           *)
(* graham_hull.convex_hull.  The points have whole coordinates, for which  *)
(* the float arithmetic of the code is exact.  quick_hull iterates over    *)
(* Python sets; the order of that iteration is an input of the model.      *)
(***************************************************************************)
MaxHullPoints == 4
HullGrid == (0..2) \X (0..2)

(* Lists of distinct points. *)
PointLists ==
    UNION { { list \in [1..n -> HullGrid] :
                \A i \in 1..n : \A j \in 1..n : list[i] = list[j] => i = j } :
            n \in 1..MaxHullPoints }

(* The orders in which a Python set may be iterated. *)
Orders(set) ==
    { list \in [1..Cardinality(set) -> set] :
        \A i \in DOMAIN list : \A j \in DOMAIN list : list[i] = list[j] => i = j }

dot(v, w) == v[1] * w[1] + v[2] * w[2]

(* quick_hull.convex_hull, lines 8-13: <<leftmost, rightmost>> *)
RECURSIVE extremes(_, _, _)
extremes(points, leftmost, rightmost) ==
    IF points = <<>> THEN <<leftmost, rightmost>>
    ELSE LET p == Head(points)
         IN  IF p[1] < leftmost[1] THEN extremes(Tail(points), p, rightmost)
             ELSE IF p[1] > rightmost[1] THEN extremes(Tail(points), leftmost, p)
             ELSE extremes(Tail(points), leftmost, rightmost)

(* _qhull_partition, lines 43-51: the first point of the list that is
   furthest from the line p0->p1, None if partition_point is never bound *)
RECURSIVE furthest_point(_, _, _, _, _)
furthest_point(points, p0, p1, furthest, partition_point) ==
    IF points = <<>> THEN partition_point
    ELSE LET p == Head(points)
             dist == (p1[1] - p0[1]) * (p[2] - p0[2])
                        - (p[1] - p0[1]) * (p1[2] - p0[2])
         IN  IF dist > furthest
             THEN furthest_point(Tail(points), p0, p1, dist, Some(p))
             ELSE furthest_point(Tail(points), p0, p1, furthest, partition_point)

(* _qhull_partition(hull, points, p0, p1): the hull list afterwards *)
RECURSIVE qhull_partition(_, _, _, _)
qhull_partition(hull, points, p0, p1) ==
    LET found == furthest_point(points, p0, p1, 0 - 1, None)
    IN  IF found = None THEN [raised |-> "UnboundLocalError", hull |-> hull]
        ELSE
        LET partition_point == Val(found)
            v0 == sub(p0, partition_point)
            v1 == sub(p1, partition_point)
            dot00 == dot(v0, v0)
            dot01 == dot(v0, v1)
            dot11 == dot(v1, v1)
            denom == dot00 * dot11 - dot01 * dot01
            (* the signs of u and v, inv_denom being positive *)
            u(p) == dot11 * dot(v0, sub(p, partition_point))
                        - dot01 * dot(v1, sub(p, partition_point))
            v(p) == dot00 * dot(v1, sub(p, partition_point))
                        - dot01 * dot(v0, sub(p, partition_point))
            is_left(p) == v(p) < 0
            is_right(p) == ~(v(p) < 0) /\ u(p) < 0
            left_points == SelectSeq(points, is_left)
            right_points == SelectSeq(points, is_right)
        IN  IF denom = 0 THEN [raised |-> "ZeroDivisionError", hull |-> hull]
            ELSE
            LET left == IF Len(left_points) > 1
                        THEN qhull_partition(hull, left_points, p0, partition_point)
                        ELSE [raised |-> NoError,
                              hull |-> hull \o <<p0>> \o left_points]
            IN  IF left.raised # NoError THEN left
                ELSE IF Len(right_points) > 1
                THEN qhull_partition(left.hull, right_points, partition_point, p1)
                ELSE [raised |-> NoError,
                      hull |-> left.hull \o <<partition_point>> \o right_points]

(* quick_hull.convex_hull, lines 14-29: the sets upper_points, lower_points *)
quick_sides(points) ==
    LET ends == extremes(points, points[1], points[1])
        leftmost == ends[1]
        rightmost == ends[2]
        line_w == rightmost[1] - leftmost[1]
        line_h == rightmost[2] - leftmost[2]
        is_upper(p) == line_w * (p[2] - leftmost[2])
                          - (p[1] - leftmost[1]) * line_h > 0
    IN  [leftmost |-> leftmost, rightmost |-> rightmost,
         upper_points |-> { p \in Range(points) : is_upper(p) }
                              \ {leftmost, rightmost},
         lower_points |-> { p \in Range(points) : ~is_upper(p) }
                              \ {leftmost, rightmost}]

(* quick_hull.convex_hull(points), the sets iterated in the given orders *)
quick_convex_hull(points, upper_order, lower_order) ==
    LET sides == quick_sides(points)
        upper == IF upper_order # <<>>
                 THEN qhull_partition(<<>>, upper_order,
                                      sides.leftmost, sides.rightmost)
                 ELSE [raised |-> NoError, hull |-> <<sides.leftmost>>]
    IN  IF upper.raised # NoError THEN upper
        ELSE IF lower_order # <<>>
        THEN qhull_partition(upper.hull, lower_order,
                             sides.rightmost, sides.leftmost)
        ELSE [raised |-> NoError, hull |-> upper.hull \o <<sides.rightmost>>]

(* graham_hull.convex_hull, lines 10-18: the stack after p is pushed *)
RECURSIVE graham_push(_, _)
graham_push(stack, p) ==
    IF Len(stack) > 1
    THEN LET v0 == stack[Len(stack) - 1]
             v1 == stack[Len(stack)]
         IN  IF (v1[1] - v0[1]) * (p[2] - v0[2])
                    - (p[1] - v0[1]) * (v1[2] - v0[2]) >= 0
             THEN graham_push(SubSeq(stack, 1, Len(stack) - 1), p)
             ELSE Append(stack, p)
    ELSE Append(stack, p)

RECURSIVE graham_scan(_, _)
graham_scan(points, stack) ==
    IF points = <<>> THEN stack
    ELSE graham_scan(Tail(points), graham_push(stack, Head(points)))

Reverse(list) == [i \in DOMAIN list |-> list[Len(list) + 1 - i]]

(* graham_hull.convex_hull(points) *)
graham_convex_hull(points) ==
    LET sorted == sort(points)
        upper == graham_scan(sorted, <<>>)
        lower == graham_scan(Reverse(sorted), <<>>)
    IN  upper \o SubSeq(lower, 2, Len(lower) - 1)

(* qhull = quick_hull.convex_hull(hull_points) *)
QuickHull(upper_order, lower_order) ==
    /\ qhull = None
    /\ upper_order \in Orders(quick_sides(hull_points).upper_points)
    /\ lower_order \in Orders(quick_sides(hull_points).lower_points)
    /\ qhull' = Some(quick_convex_hull(hull_points, upper_order, lower_order))
    /\ UNCHANGED <<hull_points, ghull>>
    /\ UNCHANGED <<spaceVars, polygonVars, lineVars, affineVars, boxVars, pointVars,
                   epsilonVars, simpleVars, isectVars, rayVars>>

(* ghull = graham_hull.convex_hull(hull_points) *)
GrahamHull ==
    /\ ghull = None
    /\ ghull' = Some(graham_convex_hull(hull_points))
    /\ UNCHANGED <<hull_points, qhull>>
    /\ UNCHANGED <<spaceVars, polygonVars, lineVars, affineVars, boxVars, pointVars,
                   epsilonVars, simpleVars, isectVars, rayVars>>

HullInit ==
    /\ hull_points \in PointLists
    /\ qhull = None
    /\ ghull = None
    /\ NoSpace /\ NoPolygon /\ NoLine /\ NoAffine /\ NoBoxes /\ NoPoint
    /\ NoEpsilon /\ NoSimple /\ NoIsect /\ NoRay

HullNext ==
    \/ \E upper_order \in Orders(quick_sides(hull_points).upper_points) :
       \E lower_order \in Orders(quick_sides(hull_points).lower_points) :
            QuickHull(upper_order, lower_order)
    \/ GrahamHull

HullSpec == HullInit /\ [][HullNext]_vars

(***************************************************************************)
(* QuadTreeSpace._split and QuadTreeSpace._expand_root, collision.py       *)
(* lines 281-402.  No public call reaches either (DeadCodeUnreached), so   *)
(* TreeSpec calls them the only way they can be called: directly, on the   *)
(* space as the constructor leaves it, and on a space whose root leaf has  *)
(* been given a centre, a size and members and whose _tree_bounds is the   *)
(* square of that root.  Lengths are in units in which the root is 4 wide, *)
(* so that a half and a quarter of its size are whole numbers.            *)
(***************************************************************************)
(* line 368, and the order of the quadrants in the descents of lines
   263-278: bit 0 of the index is +x, bit 1 is +y *)
child_offsets == << <<-1, -1>>, <<1, -1>>, <<-1, 1>>, <<1, 1>> >>

(* line 309: the tuple _split iterates over *)
split_offsets == << <<-1, -1>>, <<-1, 1>>, <<-1, 1>>, <<1, 1>> >>

(* BoundingBox.from_center(center, width, height) *)
from_center(center, box_width, box_height) ==
    BoundingBox(center[1] - box_width \div 2, center[2] - box_height \div 2,
                center[1] + box_width \div 2, center[2] + box_height \div 2)

TreeRootBounds == BoundingBox(0, 0, 4, 4)

TreeRoot(members) ==
    QuadTreeNode(Some(<<2, 2>>), 4, members, Some(<<>>))

(* The boxes of the shapes: inside one quadrant of the root, over its
   centre, the whole root, and partly or wholly outside it. *)
TreeBoxes ==
    { BoundingBox(0, 0, 1, 1), BoundingBox(3, 0, 4, 1),
      BoundingBox(0, 3, 1, 4), BoundingBox(3, 3, 4, 4),
      BoundingBox(1, 1, 3, 3), BoundingBox(0, 0, 4, 4),
      BoundingBox(4, 0, 6, 1), BoundingBox(-2, -2, 0, 0),
      BoundingBox(3, 3, 9, 5), BoundingBox(-5, 1, 1, 2) }

(* The member lists of the root: no shape twice. *)
MemberLists ==
    { members \in UNION { [1..n -> Shapes] : n \in 0..Cardinality(Shapes) } :
        \A i, j \in DOMAIN members : members[i] = members[j] => i = j }

(***************************************************************************)
(* _split(node) for node the root, lines 281-344, as what it raises, what  *)
(* it returns and the root it leaves.                                      *)
(*                                                                         *)
(*   line 291      assert not node.child                                   *)
(*   lines 292-303 a root without centre reads self.bounding_box.width;    *)
(*                 bounding_box is None unless add or add_static set it,   *)
(*                 and they set it only after line 217 has raised          *)
(*   lines 305-313 the four children are appended to node.child, which is  *)
(*                 the list of the node itself: they stay when a later     *)
(*                 line raises                                             *)
(*   lines 316-322 the first member is handed to _find_nodes_for_member,   *)
(*                 which now finds children and raises                     *)
(*   lines 324-331 reached with no member alone; child_moves is 0; the     *)
(*                 rejection calls node.child.clear(), which lists have    *)
(*                 from Python 3.3 on and not in the 2.6, 2.7 and 3.1 of   *)
(*                 setup.py: has_clear tells which interpreter runs        *)
(*   lines 333-344 the commit, reached by no call                          *)
(***************************************************************************)
split(has_clear) ==
    LET node == qtree
        child_size == node.size \div 2
        child_offset == node.size \div 4
        children ==
            [i \in 1..4 |->
                QuadTreeNode(
                    Some(<<Val(node.center)[1] + split_offsets[i][1] * child_offset,
                           Val(node.center)[2] + split_offsets[i][2] * child_offset>>),
                    child_size, <<>>, Some(<<>>))]
        split_node == [node EXCEPT !.child = Some(children)]
        child_moves == 0
    IN  IF ~NoChild(node)
        THEN [raised |-> "AssertionError", returned |-> None, qtree |-> node]
        ELSE IF node.center = None
        THEN IF bounding_box = None
             THEN [raised |-> "AttributeError", returned |-> None,
                   qtree |-> node]
             ELSE [raised |-> "unreached", returned |-> None, qtree |-> node]
        ELSE IF node.members # <<>>
        THEN [raised |-> find_nodes_for_member(split_node, members_to_bbox,
                                               <<>>, Head(node.members)).raised,
              returned |-> None, qtree |-> split_node]
        ELSE IF child_moves * 4 >= Len(node.members)
                \/ child_moves * 2 >= node_capacity
        THEN IF has_clear
             THEN [raised |-> NoError, returned |-> Some(FALSE),
                   qtree |-> [node EXCEPT !.child = Some(<<>>)]]
             ELSE [raised |-> "AttributeError", returned |-> None,
                   qtree |-> split_node]
        ELSE [raised |-> "unreached", returned |-> None, qtree |-> split_node]

(***************************************************************************)
(* _expand_root(new_bounds), lines 356-402, as what it raises and the root *)
(* and _tree_bounds it leaves.  prefix is the path from the new root to    *)
(* the old one.                                                            *)
(*                                                                         *)
(*   lines 360-361 read old_bounds.min and old_bounds.max.  BoundingBox is *)
(*                 not among the source files; the corners it is known by  *)
(*                 are min_point and max_point.  has_min tells whether the *)
(*                 class also answers to min and max.                      *)
(*   lines 370-381 one side of each axis grows by size; quad is the index  *)
(*                 the old root takes among the children                   *)
(*   line 382      center is half the extent, not the middle               *)
(*   line 383      the new node has size, the size of its children         *)
(*   line 401      _tree_bounds from the centre and size of the new root   *)
(***************************************************************************)
RECURSIVE expand_loop(_, _, _, _, _, _, _, _)
expand_loop(new_bounds, left, bottom, right, top, size, root, prefix) ==
    IF \/ left > new_bounds.min_point[1] \/ bottom > new_bounds.min_point[2]
       \/ right < new_bounds.max_point[1] \/ top < new_bounds.max_point[2]
    THEN LET grow_left == left > new_bounds.min_point[1]
             grow_down == bottom > new_bounds.min_point[2]
             quad == (IF grow_left THEN 1 ELSE 0) + (IF grow_down THEN 2 ELSE 0)
             left2 == IF grow_left THEN left - size ELSE left
             right2 == IF grow_left THEN right ELSE right + size
             bottom2 == IF grow_down THEN bottom - size ELSE bottom
             top2 == IF grow_down THEN top ELSE top + size
             center == <<(right2 - left2) \div 2, (top2 - bottom2) \div 2>>
             child_offset == size \div 2
             children ==
                 [i \in 1..4 |->
                     IF i - 1 = quad THEN root
                     ELSE QuadTreeNode(
                              Some(<<center[1] + child_offsets[i][1] * child_offset,
                                     center[2] + child_offsets[i][2] * child_offset>>),
                              size, <<>>, Some(<<>>))]
             node == QuadTreeNode(Some(center), size, <<>>, Some(children))
         IN  expand_loop(new_bounds, left2, bottom2, right2, top2, size * 2,
                         node, <<quad + 1>> \o prefix)
    ELSE [root |-> root, prefix |-> prefix]

expand_root(new_bounds, has_min) ==
    LET old_bounds == Val(tree_bounds)
        size == old_bounds.max_point[1] - old_bounds.min_point[1]
        res == expand_loop(new_bounds,
                           old_bounds.min_point[1], old_bounds.min_point[2],
                           old_bounds.max_point[1], old_bounds.max_point[2],
                           size, qtree, <<>>)
    IN  IF ~has_min
        THEN [raised |-> "AttributeError", qtree |-> qtree,
              tree_bounds |-> tree_bounds, prefix |-> <<>>]
        ELSE [raised |-> NoError, qtree |-> res.root,
              tree_bounds |-> Some(from_center(Val(res.root.center),
                                               res.root.size, res.root.size)),
              prefix |-> res.prefix]

(* self._split(self._qtree) *)
Split(has_clear) ==
    LET res == split(has_clear)
    IN  /\ last.op = "init"
        /\ qtree' = res.qtree
        /\ last' = Call("_split", <<>>, <<>>, res.raised, res.returned, {})
        /\ UNCHANGED <<polygonVars, lineVars, affineVars, boxVars, pointVars,
                       epsilonVars, hullVars, simpleVars, isectVars, rayVars>>
        /\ UNCHANGED <<shape_bbox, implicit_updates, members_to_nodes,
                       members_to_bbox, tree_bounds, bounding_box, hist, stale>>

(* lines 210-213 of add_static for one shape, which is as far as the call
   gets when the shape's box is not inside _tree_bounds *)
ExpandRoot(s, has_min) ==
    LET new_bb == from_shapes({Val(tree_bounds), shape_bbox[s]})
        res == expand_root(new_bb, has_min)
    IN  /\ last.op = "init"
        /\ tree_bounds # None
        /\ new_bb # Val(tree_bounds)
        /\ qtree' = res.qtree
        /\ tree_bounds' = res.tree_bounds
        /\ members_to_nodes' =
              [m \in DOMAIN members_to_nodes |->
                  [i \in DOMAIN members_to_nodes[m] |->
                      res.prefix \o members_to_nodes[m][i]]]
        /\ last' = Call("_expand_root", <<s>>, <<>>, res.raised, None, {})
        /\ UNCHANGED <<polygonVars, lineVars, affineVars, boxVars, pointVars,
                       epsilonVars, hullVars, simpleVars, isectVars, rayVars>>
        /\ UNCHANGED <<shape_bbox, implicit_updates, members_to_bbox,
                       bounding_box, hist, stale>>

TreeInit ==
    /\ shape_bbox \in [Shapes -> TreeBoxes]
    /\ implicit_updates \in BOOLEAN
    /\ \/ /\ qtree = QuadTreeNode(None, 0, <<>>, None)
          /\ members_to_nodes = EmptyDict
          /\ members_to_bbox = EmptyDict
          /\ tree_bounds = None
          /\ bounding_box = None
       \/ \E members \in MemberLists :
             /\ \A i \in DOMAIN members :
                   bbox_encloses_bbox(TreeRootBounds, shape_bbox[members[i]])
             /\ qtree = TreeRoot(members)
             /\ members_to_nodes = [m \in Range(members) |-> << <<>> >>]
             /\ members_to_bbox = [m \in Range(members) |-> shape_bbox[m]]
             /\ tree_bounds = Some(TreeRootBounds)
             /\ bounding_box = Some(TreeRootBounds)
    /\ hist = [s \in Shapes |-> "none"]
    /\ stale = {}
    /\ last = Call("init", <<>>, <<>>, NoError, 0, {})
    /\ NoPolygon /\ NoLine /\ NoAffine /\ NoBoxes /\ NoPoint /\ NoEpsilon
    /\ NoHull /\ NoSimple /\ NoIsect /\ NoRay

TreeNext ==
    \/ \E has_clear \in BOOLEAN : Split(has_clear)
    \/ \E s \in Shapes, has_min \in BOOLEAN : ExpandRoot(s, has_min)

TreeSpec == TreeInit /\ [][TreeNext]_vars

(***************************************************************************)
(* Polygon._check_is_simple and Polygon._check_is_simple_brute_force       *)
(* (lib/planar/polygon.py, lines 222-277) as two functions of one list of  *)
(* vertices: every polygon of 4 vertices on Grid and of 5 vertices on a    *)
(* grid of 2 by 2, repeated vertices and collinear edges included.         *)
(***************************************************************************)
SmallGrid == (0..1) \X (0..1)

SimplePolygons == [1..4 -> Grid] \cup [1..5 -> SmallGrid]

(* line 225: segments[i] is the edge from self[i - 1] to self[i] *)
brute_segments(verts) ==
    [k \in 1..Len(verts) |-> <<Item(verts, k - 2), Item(verts, k - 1)>>]

(* list.pop() leaves the list without its last item *)
Front(list) == SubSeq(list, 1, Len(list) - 1)
Last(list) == list[Len(list)]

(* lines 234-240: the while loop, a -> b the edge that is tested against
   all of segments but the one popped before it *)
RECURSIVE brute_loop(_, _)
brute_loop(ab, segments) ==
    IF Len(segments) > 1
    THEN LET next == Last(segments)
             rest == Front(segments)
         IN  IF \E k \in DOMAIN rest :
                    segments_intersect(ab[1], ab[2], rest[k][1], rest[k][2])
             THEN FALSE
             ELSE brute_loop(next, rest)
    ELSE TRUE

(* Polygon._check_is_simple_brute_force: the value it returns and caches;
   lines 227-232 test the last edge against segments[1:-1] *)
check_is_simple_brute_force(verts) ==
    LET segments == brute_segments(verts)
        ab == Last(segments)
        popped == Front(segments)
    IN  IF \E k \in 2..(Len(popped) - 1) :
               segments_intersect(ab[1], ab[2], popped[k][1], popped[k][2])
        THEN FALSE
        ELSE brute_loop(Last(popped), Front(popped))

(* poly._check_is_simple() *)
CheckIsSimple ==
    /\ swept' = Some(check_is_simple(poly))
    /\ UNCHANGED <<poly, brute>>
    /\ UNCHANGED <<spaceVars, polygonVars, lineVars, affineVars, boxVars,
                   pointVars, epsilonVars, hullVars, isectVars, rayVars>>

(* poly._check_is_simple_brute_force() *)
CheckIsSimpleBruteForce ==
    /\ brute' = Some(check_is_simple_brute_force(poly))
    /\ UNCHANGED <<poly, swept>>
    /\ UNCHANGED <<spaceVars, polygonVars, lineVars, affineVars, boxVars,
                   pointVars, epsilonVars, hullVars, isectVars, rayVars>>

(* Polygon(vertices) *)
SimpleInit ==
    /\ poly \in SimplePolygons
    /\ swept = None
    /\ brute = None
    /\ NoSpace /\ NoPolygon /\ NoLine /\ NoAffine /\ NoBoxes /\ NoPoint
    /\ NoEpsilon /\ NoHull /\ NoIsect /\ NoRay

SimpleNext ==
    \/ CheckIsSimple
    \/ CheckIsSimpleBruteForce

SimpleSpec == SimpleInit /\ [][SimpleNext]_vars

(***************************************************************************)
(* shape_op.intersect_line_bbox (lib/planar/shape_op.py, lines 87-123) as  *)
(* a function of a Line and a BoundingBox.  Coordinates are rationals, as  *)
(* for Affine; the directions given to Line have a whole length, so that   *)
(* the unit vector line.direction is a pair of rationals.  The box has its *)
(* corners on the grid of AllBoxes, the point given to Line lies on that   *)
(* grid or one step outside it.                                            *)
(***************************************************************************)
IsectPoints == (0 - 1..MaxBox + 1) \X (0 - 1..MaxBox + 1)

(* vertical and horizontal in both directions, and oblique in all four
   quadrants *)
IsectDirections ==
    { <<0, 1>>, <<0, 0 - 1>>, <<1, 0>>, <<0 - 1, 0>> }
    \cup { <<sx * 3, sy * 4>> : sx \in {0 - 1, 1}, sy \in {0 - 1, 1} }
    \cup { <<sx * 4, sy * 3>> : sx \in {0 - 1, 1}, sy \in {0 - 1, 1} }

fle(x, y) == ~flt(y, x)

(* Vec2.dot for vectors of rationals *)
fdot(v, w) == fadd(fmul(v[1], w[1]), fmul(v[2], w[2]))

(* Line(point, direction), line.py lines 79-81 with the direction setter of
   lines 44-50: direction normalized, normal = -direction.perpendicular(),
   offset = point.dot(normal) *)
Line(point, dir) ==
    LET unit == <<Rat(dir[1], length(dir)), Rat(dir[2], length(dir))>>
        line_normal == <<unit[2], fneg(unit[1])>>
    IN  [direction |-> unit,
         normal |-> line_normal,
         offset |-> fdot(<<float(point[1]), float(point[2])>>, line_normal)]

(* intersect_line_bbox(line, bbox): the tuple of points it returns *)
intersect_line_bbox(line, bbox) ==
    LET min_x == float(bbox.min_point[1])
        min_y == float(bbox.min_point[2])
        max_x == float(bbox.max_point[1])
        max_y == float(bbox.max_point[2])
        zero == float(0)
        p == <<fmul(line.normal[1], line.offset),
               fmul(line.normal[2], line.offset)>>
        slope == fdiv(line.direction[1], line.direction[2])
        low_x == fadd(p[1], fmul(fsub(min_y, p[2]), slope))
        low_misses == flt(low_x, min_x) \/ flt(max_x, low_x)
        high_x == fadd(p[1], fmul(fsub(max_y, p[2]), slope))
        high_misses == flt(high_x, min_x) \/ flt(max_x, high_x)
        x1 == IF line.direction[1] = zero THEN line.offset
              ELSE IF line.direction[2] = zero THEN min_x
              ELSE IF low_misses THEN min_x ELSE low_x
        y1 == IF line.direction[1] = zero THEN min_y
              ELSE IF line.direction[2] = zero THEN line.offset
              ELSE IF low_misses
                   THEN fadd(p[2], fdiv(fsub(min_x, p[1]), slope))
                   ELSE min_y
        x2 == IF line.direction[1] = zero THEN line.offset
              ELSE IF line.direction[2] = zero THEN max_x
              ELSE IF high_misses THEN max_x ELSE high_x
        y2 == IF line.direction[1] = zero THEN max_y
              ELSE IF line.direction[2] = zero THEN line.offset
              ELSE IF high_misses
                   THEN fadd(p[2], fdiv(fsub(max_x, p[1]), slope))
                   ELSE max_y
    IN  IF /\ fle(min_x, x1) /\ fle(x1, max_x)
           /\ fle(min_y, y1) /\ fle(y1, max_y)
        THEN IF x1 = x2 /\ y1 = y2
             THEN << <<x1, y2>> >>
             ELSE << <<x1, y1>>, <<x2, y2>> >>
        ELSE <<>>

(* shape_op.intersect_line_bbox(line, bbox) *)
IntersectLineBBox ==
    /\ isect_points' = Some(intersect_line_bbox(isect_line, isect_bbox))
    /\ UNCHANGED <<isect_line, isect_bbox>>
    /\ UNCHANGED <<spaceVars, polygonVars, lineVars, affineVars, boxVars,
                   pointVars, epsilonVars, hullVars, simpleVars, rayVars>>

(* Line(point, direction) and BoundingBox(points) *)
IsectInit ==
    /\ \E point \in IsectPoints, dir \in IsectDirections :
          isect_line = Line(point, dir)
    /\ isect_bbox \in AllBoxes
    /\ isect_points = None
    /\ NoSpace /\ NoPolygon /\ NoLine /\ NoAffine /\ NoBoxes /\ NoPoint
    /\ NoEpsilon /\ NoHull /\ NoSimple /\ NoRay

IsectNext == IntersectLineBBox

IsectSpec == IsectInit /\ [][IsectNext]_vars

(***************************************************************************)
(* Ray.point_behind, point_left, point_right and contains_point            *)
(* (lib/planar/line.py, lines 298-335) as functions of a Ray and a point.  *)
(* Coordinates are in fifths as for Line, dot products and squares in      *)
(* twenty-fifths, and the arithmetic is exact: the points of the grid lie  *)
(* on, inside and outside every bound of EPSILON that the four tests draw. *)
(***************************************************************************)
MaxRay == 3

(* the directions that Ray.__init__ accepts *)
RayDirections == { v \in LineVectors : ~is_null(normalized(v)) }

RayAnchors == { <<0, 0>>, <<2, 0 - 3>> }

RayPoints == ((0 - MaxRay)..MaxRay) \X ((0 - MaxRay)..MaxRay)

(* Ray(anchor, direction), lines 248-250, with the direction setter of
   lines 44-50 *)
Ray(ray_anchor, value) ==
    [anchor |-> ray_anchor,
     direction |-> normalized(value),
     normal |-> neg(perpendicular(normalized(value)))]

(* to_point: the point as a Vec2, minus self._anchor *)
to_point(r, point) == sub(point, r.anchor)

(* self.direction.dot(to_point) > -planar.EPSILON *)
not_behind(r, point) ==
    dot(r.direction, to_point(r, point)) > 0 - EPSILON * One

(* A test of point_left that is strict. *)
point_left_strict(r, point) ==
    /\ not_behind(r, point)
    /\ dot(r.normal, to_point(r, point)) < 0 - EPSILON * One

(* Ray.point_behind *)
point_behind(r, point) == ~not_behind(r, point)

(* Ray.point_left *)
point_left(r, point) ==
    /\ not_behind(r, point)
    /\ dot(r.normal, to_point(r, point)) <= 0 - EPSILON * One

(* Ray.point_right *)
point_right(r, point) ==
    /\ not_behind(r, point)
    /\ dot(r.normal, to_point(r, point)) >= EPSILON * One

(* Ray.contains_point: self.distance_to(point) < planar.EPSILON, where
   distance_to is abs(to_point.dot(self._normal)) beside the ray and
   to_point.length behind it *)
ray_contains_point(r, point) ==
    IF not_behind(r, point)
    THEN Abs(dot(to_point(r, point), r.normal)) < EPSILON * One
    ELSE length2(to_point(r, point)) < EPSILON2

PointBehind ==
    /\ ray_sides' = [ray_sides EXCEPT
                        !.behind = Some(point_behind(ray, ray_point))]
    /\ UNCHANGED <<ray, ray_point>>
    /\ UNCHANGED <<spaceVars, polygonVars, lineVars, affineVars, boxVars,
                   pointVars, epsilonVars, hullVars, simpleVars, isectVars>>

PointLeft ==
    /\ ray_sides' = [ray_sides EXCEPT
                        !.left = Some(point_left(ray, ray_point))]
    /\ UNCHANGED <<ray, ray_point>>
    /\ UNCHANGED <<spaceVars, polygonVars, lineVars, affineVars, boxVars,
                   pointVars, epsilonVars, hullVars, simpleVars, isectVars>>

PointRight ==
    /\ ray_sides' = [ray_sides EXCEPT
                        !.right = Some(point_right(ray, ray_point))]
    /\ UNCHANGED <<ray, ray_point>>
    /\ UNCHANGED <<spaceVars, polygonVars, lineVars, affineVars, boxVars,
                   pointVars, epsilonVars, hullVars, simpleVars, isectVars>>

ContainsPoint ==
    /\ ray_sides' = [ray_sides EXCEPT
                        !.contains = Some(ray_contains_point(ray, ray_point))]
    /\ UNCHANGED <<ray, ray_point>>
    /\ UNCHANGED <<spaceVars, polygonVars, lineVars, affineVars, boxVars,
                   pointVars, epsilonVars, hullVars, simpleVars, isectVars>>

(* Ray(anchor, direction) and a point, none of the four asked yet *)
RayInit ==
    /\ \E ray_anchor \in RayAnchors, value \in RayDirections :
          ray = Ray(ray_anchor, value)
    /\ ray_point \in RayPoints
    /\ ray_sides = [behind |-> None, left |-> None, right |-> None,
                    contains |-> None]
    /\ NoSpace /\ NoPolygon /\ NoLine /\ NoAffine /\ NoBoxes /\ NoPoint
    /\ NoEpsilon /\ NoHull /\ NoSimple /\ NoIsect

RayNext ==
    \/ PointBehind
    \/ PointLeft
    \/ PointRight
    \/ ContainsPoint

RaySpec == RayInit /\ [][RayNext]_vars

(***************************************************************************)
(* The claims.  A shape "in the space" for the caller is one it has passed *)
(* to add or add_static and not to remove since: hist[s] # "none".         *)
(***************************************************************************)
Added == { s \in Shapes : hist[s] # "none" }

(* C1: every shape that was added and not removed is among the shapes that
   coarse_collide_shape yields for it (no false negatives). *)
C1_NoFalseNegatives ==
    \A s \in Added :
        /\ coarse_collide_shape(s).raised = NoError
        /\ s \in coarse_collide_shape(s).yielded

(* C3: "shape in space" is true exactly for the shapes added and not removed
   since, and len(space) is their number. *)
C3_ContainsExactlyAdded ==
    /\ \A s \in Shapes : contains(s) <=> s \in Added
    /\ len = Cardinality(Added)

(* C4: when no shape has moved since it was last added or updated, each
   contained shape is a member of exactly the nodes the descent from the
   root returns for it. *)
C4_MembersMatchDescent ==
    stale = {} =>
        \A s \in Added :
            LET found == find_nodes_for_member(qtree, members_to_bbox, <<>>, s)
            IN  /\ found.raised = NoError
                /\ NodesListing(s) = Range(found.nodes)

(* C5: after update(s) for a tracked shape s of the space whose bounding box
   has changed, s is a member of exactly the nodes of its current box and
   its recorded box is the current one. *)
C5_UpdateReconciles ==
    last.op = "update" =>
        \A s \in Range(last.dirty) :
            hist[s] = "add" =>
                LET found == find_nodes_for_member(qtree, members_to_bbox,
                                                   <<>>, s)
                IN  /\ last.raised = NoError
                    /\ s \in DOMAIN members_to_bbox
                    /\ members_to_bbox[s] = shape_bbox[s]
                    /\ found.raised = NoError
                    /\ NodesListing(s) = Range(found.nodes)

(* C6: update() without arguments updates the dirty tracked shapes and no
   shape added with add_static, returns their number and leaves
   dirty_shapes() empty. *)
C6_UpdateAllReturnsCount ==
    last.op = "update_all" =>
        /\ last.raised = NoError
        /\ last.returned = Len(last.dirty)
        /\ \A s \in Range(last.dirty) : hist[s] # "add_static"
        /\ dirty_shapes = {}

(* C7: update(...) raises KeyError whenever one of the shapes passed to it
   is not in the space, whether its bounding box has changed or not. *)
C7_UpdateUnknownRaises ==
    (last.op = "update" /\ \E s \in Range(last.shape) : ~contains(s))
        => last.raised = "KeyError"

(* C8: after remove(s) no node lists s and s has no entry in the shape-to-
   nodes map or in the shape-to-bounding-box map, and remove raises
   nothing. *)
C8_RemoveDropsEntries ==
    last.op = "remove" =>
        /\ last.raised = NoError
        /\ \A s \in Range(last.shape) :
              /\ NodesListing(s) = {}
              /\ s \notin DOMAIN members_to_nodes
              /\ s \notin DOMAIN members_to_bbox

(* C9: a shape added with add_static and then passed to add is in the space
   with position tracking: contains_static is false of it and it has a
   recorded bounding box. *)
C9_StaticReAddedTracked ==
    \A s \in Shapes :
        hist[s] = "add_static_then_add" =>
            /\ contains(s)
            /\ ~contains_static(s)
            /\ s \in DOMAIN members_to_bbox

(* C10: after any adds, coarse_collide_point(p) yields every shape of the
   space whose bounding box contains p, bounds inclusive. *)
C10_PointQueryComplete ==
    stale = {} =>
        \A p \in Points : \A s \in Added :
            contains_point(shape_bbox[s], p) =>
                /\ coarse_collide_point(p).raised = NoError
                /\ s \in coarse_collide_point(p).yielded

(* C11: coarse_self_collide yields every unordered pair of distinct shapes
   of the space whose bounding boxes overlap (none has moved since it was
   added or updated), and raises nothing. *)
C11_SelfCollideComplete ==
    stale = {} =>
        \A a \in Added : \A b \in Added \ {a} :
            (\/ bbox_collides_bbox(shape_bbox[a], shape_bbox[b])
             \/ bbox_collides_bbox(shape_bbox[b], shape_bbox[a]))
                => /\ coarse_self_collide.raised = NoError
                   /\ {a, b} \in coarse_self_collide.yielded

(* C12: remove_enclosed(box) ends without an exception, removes from the
   space exactly the shapes whose bounding box is enclosed by box, as
   remove applied to the shapes of collide_enclosed(box) does, and with
   with_results=True returns the set of the shapes removed. *)
C12_RemoveEnclosedEquivalent ==
    [][\A box \in Boxes : \A with_results \in BOOLEAN :
          RemoveEnclosed(box, with_results) =>
              LET enclosed == { s \in Added :
                                  bbox_encloses_bbox(box, shape_bbox[s]) }
              IN  /\ last'.raised = NoError
                  /\ collide_enclosed(box).raised = NoError
                  /\ collide_enclosed(box).yielded = enclosed
                  /\ \A s \in enclosed : NodesListing(s)' = {}
                  /\ \A s \in Added \ enclosed :
                        s \in DOMAIN members_to_nodes'
                  /\ with_results => last'.yielded = enclosed]_vars

(* C13: with implicit_updates=False a call other than update leaves the
   recorded bounding box of every shape that keeps a record as it was. *)
C13_OnlyUpdateRefreshes ==
    [][(~implicit_updates /\ last'.op \notin {"update", "update_all"}) =>
          \A s \in DOMAIN members_to_bbox \cap DOMAIN members_to_bbox' :
              members_to_bbox'[s] = members_to_bbox[s]]_vars

(* What a read of is_simple returns for a polygon with nothing cached. *)
FreshIsSimple(verts) ==
    IF classify(verts).simple # unknown THEN Val(classify(verts).simple)
    ELSE check_is_simple(verts)

(* C14: for a polygon of more than 3 vertices, right after an index
   assignment is_convex_known and is_simple_known are false, and whatever
   is cached afterwards, which is what a read returns, is the
   classification of the current vertices; a 3-vertex polygon is always
   known convex and simple. *)
C14_CacheFollowsVertices ==
    /\ [](Len(vertices) > 3 =>
            /\ is_convex_known => convex = classify(vertices).convex
            /\ is_simple_known => Val(simple) = FreshIsSimple(vertices))
    /\ [](Len(vertices) = 3 => convex = Some(TRUE) /\ simple = Some(TRUE))
    /\ [][\A index \in Indexes(Len(vertices)) :
            (SetItem(index, Item(vertices', index)) /\ Len(vertices) > 3) =>
                (~is_convex_known' /\ ~is_simple_known')]_vars

(* C14 witness: a vertex was assigned and the polygon was then read as not
   convex but simple. *)
C14_Witness ==
    /\ mutated /\ Len(vertices) > 3
    /\ convex = Some(FALSE) /\ simple = Some(TRUE)

(* C15: reading is_convex of a polygon of more than 3 vertices makes it
   known simple when it is convex and leaves is_simple_known as it was when
   it is not; simplicity becomes known in no other way than by that or by
   reading is_simple. *)
C15_ConvexSettlesSimple ==
    /\ [][(IsConvex /\ Len(vertices) > 3) =>
            /\ is_convex_known'
            /\ convex' = Some(TRUE) => simple' = Some(TRUE)
            /\ convex' = Some(FALSE) => simple' = simple]_vars
    /\ [][(~is_simple_known /\ is_simple_known') =>
            (IsSimple \/ (IsConvex /\ convex' = Some(TRUE)))]_vars

(* C15 witness: is_convex was read and false, and simplicity is unknown. *)
C15_Witness ==
    Len(vertices) > 3 /\ convex = Some(FALSE) /\ simple = unknown

(* The points test_contains_point_non_simple expects inside that lie in a
   part of the polygon covered once. *)
CoveredOnce ==
    { <<1, 1>>, <<3, 1>>, <<3, -3>>, <<-2, -2>>, <<-3, 1>>, <<-1, 3>> }

(* C16 as first stated: the crossing test reports the point (-0.5, 0.5) of
   the self-overlap as inside and the point (0.5, -0.5) of the hole as
   outside. *)
C16_OverlapInside ==
    is_inside # None =>
        /\ query_point = <<-1, 1>> => Val(is_inside)
        /\ query_point = <<1, -1>> => ~Val(is_inside)

(* C16: the crossing test counts crossings modulo 2: it reports the point
   (-0.5, 0.5), which the polygon covers twice, as outside, like the point
   (0.5, -0.5) of the hole, and the points covered once as inside. *)
C16_CrossingTestEvenOdd ==
    is_inside # None =>
        /\ query_point = <<-1, 1>> => ~Val(is_inside)
        /\ query_point = <<1, -1>> => ~Val(is_inside)
        /\ query_point \in CoveredOnce => Val(is_inside)

(* C16 witness: the test has run on the point of the self-overlap. *)
C16_Witness == query_point = <<-1, 1>> /\ is_inside # None

(* C17: once a Line or Ray has a direction, direction and normal are
   non-null vectors of length 1.0 with normal = -direction.perpendicular()
   and direction = normal.perpendicular(); an assignment of a null vector
   to either raises ValueError, and an assignment that raises ValueError
   leaves both as they were. *)
C17_DirectionNormalConsistent ==
    /\ [](direction # None =>
            /\ normal # None
            /\ length2(Val(direction)) = One * One
            /\ length2(Val(normal)) = One * One
            /\ ~is_null(Val(direction)) /\ ~is_null(Val(normal))
            /\ Val(normal) = neg(perpendicular(Val(direction)))
            /\ Val(direction) = perpendicular(Val(normal)))
    /\ []((assigned # None /\ is_null(Val(assigned).value)) =>
            Val(assigned).raised = "ValueError")
    /\ [][(assigned' # None /\ Val(assigned').raised = "ValueError") =>
            UNCHANGED <<direction, normal>>]_vars

(* C17 witness: a Line or Ray with a direction whose last assignment, of a
   null vector to normal, raised ValueError. *)
C17_Witness ==
    /\ direction # None /\ assigned # None
    /\ Val(assigned).attribute = "normal"
    /\ is_null(Val(assigned).value)
    /\ Val(assigned).raised = "ValueError"

(* The extents of two boxes on axis k (1 = x, 2 = y) overlap: they share
   more than an end point of both, that is an interval, or the point that
   is the whole extent of one of them and lies inside the other. *)
Lo(bbox, k) == bbox.min_point[k]
Hi(bbox, k) == bbox.max_point[k]
Max(x, y) == IF x >= y THEN x ELSE y
Min(x, y) == IF x <= y THEN x ELSE y
ExtentsOverlap(bbox1, bbox2, k) ==
    LET lo == Max(Lo(bbox1, k), Lo(bbox2, k))
        hi == Min(Hi(bbox1, k), Hi(bbox2, k))
    IN  \/ lo < hi
        \/ /\ lo = hi
           /\ \/ Lo(bbox1, k) < lo /\ hi < Hi(bbox1, k)
              \/ Lo(bbox2, k) < lo /\ hi < Hi(bbox2, k)

(* Two cells side by side on axis k: cell2 begins where cell1 ends, both
   have the same extent on the other axis, and neither is of zero size. *)
Adjacent(cell1, cell2, k) ==
    /\ Hi(cell1, k) = Lo(cell2, k)
    /\ Lo(cell1, 3 - k) = Lo(cell2, 3 - k)
    /\ Hi(cell1, 3 - k) = Hi(cell2, 3 - k)
    /\ \A c \in {cell1, cell2} : Lo(c, 1) < Hi(c, 1) /\ Lo(c, 2) < Hi(c, 2)

ZeroSize(bbox) == bbox.min_point = bbox.max_point

(* C18 as first stated: for boxes whose extents overlap on the other axis,
   bbox_collides_bbox(a, b) is true when a's max edge coincides with b's
   min edge and false when a's min edge coincides with b's max edge. *)
C18_TouchingEdges ==
    collides # None =>
        \A k \in {1, 2} :
            ExtentsOverlap(bbox_a, bbox_b, 3 - k) =>
                /\ Hi(bbox_a, k) = Lo(bbox_b, k) => Val(collides)
                /\ Lo(bbox_a, k) = Hi(bbox_b, k) => ~Val(collides)

(* C18: for boxes whose extents overlap on the other axis,
   bbox_collides_bbox(a, b) is false when a's min edge coincides with b's
   max edge, and true when a's max edge coincides with b's min edge and
   a's min edge lies below b's max edge (they are not both of zero extent
   at the same coordinate); so a zero-size box inside the edge shared by
   two adjacent cells collides with exactly one of the two. *)
C18_TouchingHalfOpen ==
    collides # None =>
        \A k \in {1, 2} :
            ExtentsOverlap(bbox_a, bbox_b, 3 - k) =>
                /\ (Hi(bbox_a, k) = Lo(bbox_b, k)
                        /\ Lo(bbox_a, k) < Hi(bbox_b, k)) => Val(collides)
                /\ Lo(bbox_a, k) = Hi(bbox_b, k) => ~Val(collides)
                /\ ZeroSize(bbox_a) =>
                      \A cell \in AllBoxes :
                          (/\ Adjacent(bbox_b, cell, k) \/ Adjacent(cell, bbox_b, k)
                           /\ Lo(bbox_a, k) \in {Lo(bbox_b, k), Hi(bbox_b, k)}
                           /\ Lo(bbox_a, k) \in {Lo(cell, k), Hi(cell, k)})
                              => Val(collides) # bbox_collides_bbox(bbox_a, cell)

(* C18 witness: the test has run on a zero-size box that lies inside the
   left edge of a cell, next to which there is another cell. *)
C18_Witness ==
    /\ collides # None /\ Val(collides)
    /\ ZeroSize(bbox_a)
    /\ Hi(bbox_a, 1) = Lo(bbox_b, 1)
    /\ ExtentsOverlap(bbox_a, bbox_b, 2)
    /\ \E cell \in AllBoxes : Adjacent(cell, bbox_b, 1)

(* C19: Affine.scale(scaling, anchor=p) * p == p, for every scalar or
   vector scaling and every anchor p: the anchor is a fixed point. *)
C19_AnchorFixed ==
    (product # None /\ Val(product).op = "mul_anchor") =>
        Val(product).value = Val(anchor)

(* C20: a transform T that is not degenerate (|determinant| >= EPSILON)
   has an inverse ~T, and both T * ~T and ~T * T almost equal the
   identity, whatever the translation of T. *)
C20_InverseBothSides ==
    (product # None /\ Val(product).op = "invert"
        /\ ~is_degenerate(Val(transform))) =>
            /\ Val(product).raised = NoError
            /\ almost_equals(Val(Val(product).right), identity)
            /\ almost_equals(Val(Val(product).left), identity)

(* C20 witness: the inverse of a transform with a translation, shear terms
   and a determinant equal to EPSILON has been taken. *)
C20_Witness ==
    /\ product # None /\ Val(product).op = "invert"
    /\ Val(product).raised = NoError
    /\ determinant(Val(transform)) = epsilon
    /\ Val(transform)[3] # float(0) /\ Val(transform)[6] # float(0)
    /\ Val(transform)[2] # float(0) /\ Val(transform)[4] # float(0)

(* C21: after module load and after any sequence of set_epsilon calls,
   EPSILON2 is the square of EPSILON; EPSILON is the value last set; and
   set_epsilon(old_e) brings back both values that were in force when
   old_e was saved. *)
C21_Epsilon2IsSquare ==
    /\ [](planar_EPSILON2 = dec_mul(planar_EPSILON, planar_EPSILON))
    /\ [][\A value_given \in EpsilonValues :
            SetEpsilon(value_given) => planar_EPSILON' = float_of(value_given)]_vars
    /\ [][RestoreEpsilon => <<planar_EPSILON', planar_EPSILON2'>> = Val(old_e)]_vars

(* C21 witness: the tolerance was changed after old_e was saved and
   set_epsilon(old_e) has brought the default back. *)
C21_Witness ==
    /\ old_e # None
    /\ Val(old_e) = <<Dec(1, 5), Dec(1, 10)>>
    /\ <<planar_EPSILON, planar_EPSILON2>> = Val(old_e)
    /\ is_null_read # None
    /\ Val(is_null_read).EPSILON2 # planar_EPSILON2

(* C22: every read of vec.is_null gives length2 < EPSILON2 for the
   EPSILON2 in force at that read, also when is_null had been read before
   set_epsilon changed the tolerance. *)
C22_IsNullFollowsEpsilon ==
    is_null_read # None =>
        Val(is_null_read).value = vec_is_null(vec, Val(is_null_read).EPSILON2)

Rotations(list) ==
    { [i \in DOMAIN list |-> list[((i - 1 + k) % Len(list)) + 1]] :
        k \in 0..(Len(list) - 1) }

(* C23: for every list of distinct points, points on one line and points
   that share the least or the greatest x included, quick_hull.convex_hull
   returns the hull vertices that graham_hull.convex_hull returns, up to
   the vertex the list starts with. *)
C23_QuickHullIsGrahamHull ==
    (qhull # None /\ ghull # None) =>
        /\ Val(qhull).raised = NoError
        /\ Val(ghull) \in Rotations(Val(qhull).hull)

(***************************************************************************)
(* C24: a call of _split on a node with a centre returns False, leaving    *)
(* the node a leaf with its members as they were, exactly when fewer than  *)
(* node_capacity/2 or fewer than a quarter of its members would move into  *)
(* children, and returns True with the four children kept otherwise.  A    *)
(* member would move when it has no large overlap with the node (lines     *)
(* 247-250).  Refuted under TreeSpec.                                      *)
(***************************************************************************)
LargeNodeOverlap(node, box) ==
    /\ contains_point(box, Val(node.center))
    /\ (box.max_point[1] - box.min_point[1])
         * (box.max_point[2] - box.min_point[2]) * 2 > node.size * node.size

C24_SplitRejectsExactly ==
    (last.op = "_split" /\ qtree.center # None) =>
        LET moves == Cardinality({ i \in DOMAIN qtree.members :
                        ~LargeNodeOverlap(qtree, shape_bbox[qtree.members[i]]) })
            rejected == moves * 2 < node_capacity
                        \/ moves * 4 < Len(qtree.members)
        IN  /\ last.raised = NoError
            /\ IF rejected
               THEN last.returned = Some(FALSE) /\ NoChild(qtree)
               ELSE last.returned = Some(TRUE) /\ Len(Val(qtree.child)) = 4

(***************************************************************************)
(* C25: every node of the tree that has children has four, child i with   *)
(* half the size of the node and centred at the node's centre plus a       *)
(* quarter of the node's size times child_offsets[i].  Refuted under       *)
(* TreeSpec, by the children of _split and by the roots of _expand_root.   *)
(***************************************************************************)
C25_FourChildrenInQuadrantOrder ==
    \A path \in NodePaths(qtree, <<>>) :
        LET node == NodeAt(qtree, path)
        IN  ~NoChild(node) =>
              /\ Len(Val(node.child)) = 4
              /\ \A i \in 1..4 :
                    LET child == Val(node.child)[i]
                    IN  /\ child.size * 2 = node.size
                        /\ child.center # None
                        /\ \A axis \in 1..2 :
                              4 * Val(child.center)[axis] =
                                  4 * Val(node.center)[axis]
                                  + node.size * child_offsets[i][axis]

(***************************************************************************)
(* C26: after _expand_root, called for a shape whose box is not inside the *)
(* tree bounds, the call has returned, the tree bounds enclose the bounds  *)
(* of before and the box of the shape, and the root of before is a node    *)
(* below the new root, with the centre and size it had.  Refuted under     *)
(* TreeSpec.                                                               *)
(***************************************************************************)
C26_ExpandRootEncloses ==
    last.op = "_expand_root" =>
        /\ last.raised = NoError
        /\ bbox_encloses_bbox(Val(tree_bounds), TreeRootBounds)
        /\ bbox_encloses_bbox(Val(tree_bounds), shape_bbox[last.shape[1]])
        /\ \E path \in NodePaths(qtree, <<>>) \ {<<>>} :
              /\ NodeAt(qtree, path).center = Some(<<2, 2>>)
              /\ NodeAt(qtree, path).size = 4

(***************************************************************************)
(* C27: for a polygon of at least four vertices _check_is_simple returns   *)
(* what _check_is_simple_brute_force returns, repeated vertices, collinear *)
(* overlapping edges and edges that touch at an endpoint included.         *)
(* Refuted under SimpleSpec.                                               *)
(***************************************************************************)
C27_SweepIsBruteForce ==
    (Len(poly) >= 4 /\ swept # None /\ brute # None) => swept = brute

(***************************************************************************)
(* C28: every point intersect_line_bbox returns lies on the line and on    *)
(* the boundary of the box, and it returns no point only when the line     *)
(* does not meet the box: no corner of the box on the line and all four on *)
(* one side of it.  Refuted under IsectSpec.                               *)
(***************************************************************************)
Side(line, corner) ==
    fsub(fdot(<<float(corner[1]), float(corner[2])>>, line.normal),
         line.offset)

Corners(bbox) ==
    { <<bbox.min_point[1], bbox.min_point[2]>>,
      <<bbox.min_point[1], bbox.max_point[2]>>,
      <<bbox.max_point[1], bbox.min_point[2]>>,
      <<bbox.max_point[1], bbox.max_point[2]>> }

LineMeetsBBox(line, bbox) ==
    \E c, d \in Corners(bbox) :
        fle(Side(line, c), float(0)) /\ fle(float(0), Side(line, d))

OnLine(line, point) == fdot(point, line.normal) = line.offset

OnBoundary(bbox, point) ==
    /\ fle(float(bbox.min_point[1]), point[1])
    /\ fle(point[1], float(bbox.max_point[1]))
    /\ fle(float(bbox.min_point[2]), point[2])
    /\ fle(point[2], float(bbox.max_point[2]))
    /\ \/ point[1] = float(bbox.min_point[1])
       \/ point[1] = float(bbox.max_point[1])
       \/ point[2] = float(bbox.min_point[2])
       \/ point[2] = float(bbox.max_point[2])

C28_IntersectionsOnLineAndBox ==
    isect_points # None =>
        /\ \A i \in DOMAIN Val(isect_points) :
              /\ OnLine(isect_line, Val(isect_points)[i])
              /\ OnBoundary(isect_bbox, Val(isect_points)[i])
        /\ Val(isect_points) = <<>> => ~LineMeetsBBox(isect_line, isect_bbox)

(***************************************************************************)
(* C30: once a Ray has answered point_behind, point_left, point_right and  *)
(* contains_point for one point, exactly one of the four answers is True.  *)
(***************************************************************************)
C30_ExactlyOneSide ==
    (\A side \in DOMAIN ray_sides : ray_sides[side] # None) =>
        Cardinality({ side \in DOMAIN ray_sides : Val(ray_sides[side]) }) = 1

(* All four have answered for a point that lies on a bound: as far to the
   left of the ray as EPSILON, and as far behind its anchor as EPSILON
   along the ray. *)
C30_Witness ==
    /\ \A side \in DOMAIN ray_sides : ray_sides[side] # None
    /\ dot(ray.normal, to_point(ray, ray_point)) = 0 - EPSILON * One
    /\ dot(ray.direction, to_point(ray, ray_point)) = 0 - EPSILON * One

====
